---- MODULE Spec2Model ----
(***************************************************************************)
(* A model of photodock's media ingestion and derivation pipeline:         *)
(* the recursive scanner and its catalog writes, the URL slug generator,   *)
(* the in-place GPS removal from a JPEG byte stream, and the thumbnail /   *)
(* placeholder cache with its in-memory existence index.                   *)
(*                                                                         *)
(* Strings of the program (paths, slugs) are sequences of character codes; *)
(* files are sequences of bytes.  Go indexes from 0, TLA+ sequences from   *)
(* 1: the helpers At and Slice take Go (0-based, half-open) indices.       *)
(***************************************************************************)
EXTENDS Integers, Sequences, FiniteSets, TLC

VARIABLES
    gpsShape,    \* how the file under test was built (see GPSShapes)
    gpsInput,    \* the bytes of the file before the first StripGPS call
    gpsFile,     \* the bytes of the file on disk now
    gpsLog,      \* one record per StripGPS call made so far
    exifIn,      \* the file and tool outcome an Extract call meets
    exifOut,     \* what the Extract call returned
    dirs,        \* media root: the directories below it (their relative paths)
    files,       \* media root: relative path of each file -> its bytes
    folders,     \* catalog: the rows of table folders
    photos,      \* catalog: the rows of table photos
    folderSeq,   \* catalog: last value of the sequence folders.id
    photoSeq,    \* catalog: last value of the sequence photos.id
    cacheFiles,  \* cache directory: the derivative files on disk
    existsCache, \* ThumbnailService.existsCache: the existence index
    scan,        \* the scan goroutines: position and locals of each
    regen,       \* the RegenerateURLPaths goroutine: position and locals
    req,         \* the derivative requests in flight: position and locals
    partial,     \* cache directory: the files whose bytes are not all written
    reply        \* what the last finished operation returned

gpsVars == <<gpsShape, gpsInput, gpsFile, gpsLog>>
exifVars == <<exifIn, exifOut>>
treeVars == <<dirs, files>>
catalogVars == <<folders, photos, folderSeq, photoSeq>>
cacheVars == <<cacheFiles, existsCache>>
derivVars == <<req, partial>>
sysVars == <<dirs, files, folders, photos, folderSeq, photoSeq,
             cacheFiles, existsCache, scan, regen, req, partial, reply>>

vars == <<gpsShape, gpsInput, gpsFile, gpsLog, exifIn, exifOut, dirs, files,
          folders, photos, folderSeq, photoSeq, cacheFiles, existsCache, scan,
          regen, req, partial, reply>>

(***************************************************************************)
(* Bounds of the model.                                                    *)
(***************************************************************************)
MaxEntries == 2     \* directory entries physically present in IFD0
MaxStripCalls == 2  \* StripGPS calls applied to one file

(***************************************************************************)
(* Byte-level helpers.                                                     *)
(***************************************************************************)

\* s[i] of Go for a sequence that is fully materialised.
At(s, i) == s[i + 1]

\* s[a:b] of Go, for 0 <= a <= b <= len(s).
Slice(s, a, b) == [k \in 1..(b - a) |-> s[a + k]]

\* os.ReadFile allocates max(size+1, 512) bytes of zeroed capacity and fills
\* the first size of them: cap(data) for a file of n bytes.
ReadFileCap(n) == IF n + 1 < 512 THEN 512 ELSE n + 1

\* data[a:b] of Go for a slice whose capacity exceeds its length: legal up to
\* cap(data), and the bytes between len and cap are the zeroes of the
\* allocation.  The caller checks b <= cap (beyond it Go panics).
SliceCap(data, a, b) ==
    [k \in 1..(b - a) |-> IF a + k <= Len(data) THEN data[a + k] ELSE 0]

\* binary.ByteOrder.Uint16 / Uint32 at Go offset i of s.
Uint16(bo, s, i) ==
    IF bo = "LE" THEN At(s, i) + 256 * At(s, i + 1)
                 ELSE 256 * At(s, i) + At(s, i + 1)

\* The code widens the uint32 to a 64-bit int and only compares it with a
\* buffer length; TLC's integers are 32-bit, so a value of 2^31 or
\* more is given as 2^31-1, which compares the same with every length.
Uint32(bo, s, i) ==
    LET b0 == IF bo = "LE" THEN At(s, i) ELSE At(s, i + 3)
        b1 == IF bo = "LE" THEN At(s, i + 1) ELSE At(s, i + 2)
        b2 == IF bo = "LE" THEN At(s, i + 2) ELSE At(s, i + 1)
        b3 == IF bo = "LE" THEN At(s, i + 3) ELSE At(s, i)
    IN  IF b3 >= 128 THEN 2147483647
        ELSE b0 + 256 * b1 + 65536 * b2 + 16777216 * b3

ExifSig == <<69, 120, 105, 102, 0, 0>>   \* "Exif\x00\x00"
GPSTag == 34853                          \* 0x8825
MarkerPrefix == 255                      \* 0xFF
MarkerSOI == 216                         \* 0xD8
MarkerEOI == 217                         \* 0xD9
MarkerSOS == 218                         \* 0xDA
MarkerAPP1 == 225                        \* 0xE1
EntrySize == 12

\* The inner loop of removeGPSFromExif: exifResult[j] = 0 for the 12 bytes
\* of the entry at Go offset entryOffset of result[10:].
ZeroEntry(result, entryOffset) ==
    [k \in 1..Len(result) |->
        IF k - 1 >= 10 + entryOffset /\ k - 1 < 10 + entryOffset + EntrySize
        THEN 0 ELSE result[k]]

\* The loop over the directory entries of removeGPSFromExif.
RECURSIVE RemoveEntries(_, _, _, _, _, _)
RemoveEntries(bo, result, offset, i, numEntries, modified) ==
    IF i >= numEntries
    THEN [result |-> result, modified |-> modified]
    ELSE LET entryOffset == offset + i * EntrySize
             exifLen == Len(result) - 10
         IN  IF entryOffset + EntrySize > exifLen
             THEN [result |-> result, modified |-> modified]
             ELSE IF Uint16(bo, Slice(result, 10, Len(result)), entryOffset) = GPSTag
                  THEN RemoveEntries(bo, ZeroEntry(result, entryOffset), offset,
                                     i + 1, numEntries, TRUE)
                  ELSE RemoveEntries(bo, result, offset, i + 1, numEntries, modified)

\* removeGPSFromExif(segment): the segment with every IFD0 entry whose tag is
\* the GPS pointer zeroed, and whether one was.
removeGPSFromExif(segment) ==
    LET unchanged == [result |-> segment, modified |-> FALSE]
        exifData == Slice(segment, 10, Len(segment))
    IN  IF Len(segment) < 12 THEN unchanged
        ELSE IF Len(exifData) < 8 THEN unchanged
        ELSE IF Slice(exifData, 0, 2) \notin {<<73, 73>>, <<77, 77>>} THEN unchanged
        ELSE LET bo == IF Slice(exifData, 0, 2) = <<73, 73>> THEN "LE" ELSE "BE"
                 ifdOffset == Uint32(bo, exifData, 4)
             IN  IF ifdOffset >= Len(exifData) THEN unchanged
                 ELSE IF ifdOffset + 2 > Len(exifData) THEN unchanged
                 ELSE RemoveEntries(bo, segment, ifdOffset + 2, 0,
                                    Uint16(bo, exifData, ifdOffset), FALSE)

\* What one run of stripGPSFromJPEG ends with: result is the output buffer,
\* modified whether an entry was zeroed, beyond whether a slice reached past
\* len(data), panicked whether a slice reached past cap(data).
StripEnd(result, modified, beyond, panicked) ==
    [result |-> result, modified |-> modified, beyond |-> beyond, panicked |-> panicked]

\* The marker loop of stripGPSFromJPEG from position pos.
RECURSIVE SegmentLoop(_, _, _, _, _)
SegmentLoop(data, pos, result, modified, beyond) ==
    LET n == Len(data) IN
    IF ~(pos < n - 1) THEN StripEnd(result, modified, beyond, FALSE)
    ELSE IF At(data, pos) # MarkerPrefix
         THEN StripEnd(result \o Slice(data, pos, n), modified, beyond, FALSE)
    ELSE IF At(data, pos + 1) \in {MarkerEOI, MarkerSOS}
         THEN StripEnd(result \o Slice(data, pos, n), modified, beyond, FALSE)
    ELSE IF pos + 4 > n THEN StripEnd(result, modified, beyond, FALSE)
    ELSE LET segLen == 256 * At(data, pos + 2) + At(data, pos + 3) + 2
             end == pos + segLen
             isExif == /\ At(data, pos + 1) = MarkerAPP1
                       /\ pos + 10 < n
                       /\ Slice(data, pos + 4, pos + 10) = ExifSig
         IN  IF end > ReadFileCap(n)
             THEN StripEnd(result, modified, TRUE, TRUE)
             ELSE IF isExif
                  THEN LET r == removeGPSFromExif(SliceCap(data, pos, end))
                       IN  SegmentLoop(data, end, result \o r.result,
                                       modified \/ r.modified, beyond \/ end > n)
                  ELSE SegmentLoop(data, end, result \o SliceCap(data, pos, end),
                                   modified, beyond \/ end > n)

\* stripGPSFromJPEG on the bytes of a file that could be read.
stripGPSFromJPEG(data) ==
    IF Len(data) < 2 \/ At(data, 0) # MarkerPrefix \/ At(data, 1) # MarkerSOI
    THEN StripEnd(data, FALSE, FALSE, FALSE)
    ELSE SegmentLoop(data, 2, <<MarkerPrefix, MarkerSOI>>, FALSE, FALSE)

\* The bytes of the file after the call: os.WriteFile(path, result) when an
\* entry was zeroed and the loop ended without a panic.
FileAfterStrip(data) ==
    LET r == stripGPSFromJPEG(data)
    IN  IF r.modified /\ ~r.panicked THEN r.result ELSE data

(***************************************************************************)
(* The files StripGPS is applied to.  A shape describes how a file is laid *)
(* out; BuildFile turns it into bytes.  The layout is                      *)
(*   SOI, [APP0], APP1("Exif\0\0", TIFF header, IFD0), tail                *)
(* with the defects a real file can have: another magic, a declared        *)
(* segment length that runs past the end of the file, a payload cut after  *)
(* 4 bytes, an IFD0 offset or an entry count that points outside the       *)
(* payload, and a tail that is not a whole segment.                        *)
(***************************************************************************)
TagSeqs == UNION {[1..k -> {"gps", "make"}] : k \in 0..MaxEntries}

GPSShapes ==
    {s \in [magic : {"jpeg", "png"},
            pre : {"none", "app0"},
            bo : {"II", "MM", "bad"},
            ifdOff : {"ifd0", "last", "far"},
            tags : TagSeqs,
            extraCount : {0, 3},
            lenMode : {"exact", "plus20", "huge"},
            payload : {"full", "short"},
            tail : {"none", "eoi", "sos", "nonff", "stray1", "stray3", "hugeseg"}] :
        /\ s.magic = "png" => s.pre = "none" /\ s.lenMode = "exact" /\ s.tail = "eoi"
        /\ s.payload = "short" => s.tags = <<>> /\ s.extraCount = 0 /\ s.ifdOff = "ifd0"}

\* A 16-bit / 32-bit value in the byte order of the shape ("bad" lays out as II).
Put16(bo, v) ==
    IF bo = "MM" THEN <<v \div 256, v % 256>> ELSE <<v % 256, v \div 256>>
Put32(bo, v) ==
    IF bo = "MM" THEN <<0, 0, v \div 256, v % 256>> ELSE <<v % 256, v \div 256, 0, 0>>

\* One 12-byte directory entry: tag, type LONG, count 1, value 26.
EntryBytes(bo, tag) ==
    Put16(bo, IF tag = "gps" THEN GPSTag ELSE 271) \o Put16(bo, 4)
        \o Put32(bo, 1) \o Put32(bo, 26)

RECURSIVE EntriesBytes(_, _)
EntriesBytes(bo, tags) ==
    IF tags = <<>> THEN <<>>
    ELSE EntryBytes(bo, Head(tags)) \o EntriesBytes(bo, Tail(tags))

\* The TIFF block of the shape: header, then IFD0 at offset 8.
PayloadLen(s) == IF s.payload = "short" THEN 4 ELSE 8 + 2 + EntrySize * Len(s.tags) + 4
PayloadBytes(s) ==
    LET mark == IF s.bo = "II" THEN <<73, 73>>
                ELSE IF s.bo = "MM" THEN <<77, 77>> ELSE <<88, 88>>
        off == IF s.ifdOff = "ifd0" THEN 8
               ELSE IF s.ifdOff = "last" THEN PayloadLen(s) - 1 ELSE 200
        full == mark \o Put16(s.bo, 42) \o Put32(s.bo, off)
                  \o Put16(s.bo, Len(s.tags) + s.extraCount)
                  \o EntriesBytes(s.bo, s.tags) \o <<0, 0, 0, 0>>
    IN  IF s.payload = "short" THEN Slice(full, 0, 4) ELSE full

App1Bytes(s) ==
    LET declared == IF s.lenMode = "huge" THEN 65535
                    ELSE 2 + 6 + PayloadLen(s) + (IF s.lenMode = "plus20" THEN 20 ELSE 0)
    IN  <<MarkerPrefix, MarkerAPP1, declared \div 256, declared % 256>>
            \o ExifSig \o PayloadBytes(s)

TailBytes(s) ==
    CASE s.tail = "none" -> <<>>
      [] s.tail = "eoi" -> <<MarkerPrefix, MarkerEOI>>
      [] s.tail = "sos" -> <<MarkerPrefix, MarkerSOS, 18, 52>>
      [] s.tail = "nonff" -> <<7, 9>>
      [] s.tail = "stray1" -> <<MarkerPrefix>>
      [] s.tail = "stray3" -> <<MarkerPrefix, 224, 0>>
      [] s.tail = "hugeseg" -> <<MarkerPrefix, 224, 255, 255>>

PreBytes(s) == IF s.pre = "app0" THEN <<MarkerPrefix, 224, 0, 4, 74, 70>> ELSE <<>>

BuildFile(s) ==
    (IF s.magic = "jpeg" THEN <<MarkerPrefix, MarkerSOI>> ELSE <<137, 80>>)
        \o PreBytes(s) \o App1Bytes(s) \o TailBytes(s)

\* Go offset, in the file, of directory entry j (1-based) of the shape's IFD0.
EntryPos(s, j) == 2 + Len(PreBytes(s)) + 10 + 8 + 2 + EntrySize * (j - 1)

(***************************************************************************)
(* Strings.  A string is a sequence of character codes (ASCII).            *)
(***************************************************************************)
Slash == 47        \* '/'
Dot == 46          \* '.'
Hyphen == 45       \* '-'
Space == 32        \* ' '
Underscore == 95   \* '_'

\* strings.ToLower on ASCII.
LowerRune(c) == IF c >= 65 /\ c <= 90 THEN c + 32 ELSE c
ToLower(str) == [k \in 1..Len(str) |-> LowerRune(str[k])]

HasPrefix(str, pre) ==
    Len(str) >= Len(pre) /\ SubSeq(str, 1, Len(pre)) = pre
HasSuffix(str, suf) ==
    Len(str) >= Len(suf) /\ SubSeq(str, Len(str) - Len(suf) + 1, Len(str)) = suf
TrimSuffix(str, suf) ==
    IF HasSuffix(str, suf) THEN SubSeq(str, 1, Len(str) - Len(suf)) ELSE str

\* The largest index at which c occurs in str, 0 when it does not.
LastIndex(str, c) ==
    LET at == {k \in 1..Len(str) : str[k] = c}
    IN  IF at = {} THEN 0 ELSE CHOOSE k \in at : \A j \in at : j <= k

\* filepath.Base, filepath.Dir ("" for a name without directory) and
\* filepath.Join of a directory and a name.
Base(path) == SubSeq(path, LastIndex(path, Slash) + 1, Len(path))
Dir(path) ==
    IF LastIndex(path, Slash) = 0 THEN <<>>
    ELSE SubSeq(path, 1, LastIndex(path, Slash) - 1)
Join(dir, name) == IF dir = <<>> THEN name ELSE dir \o <<Slash>> \o name

\* filepath.Ext: the suffix from the last dot of the last path element.
Ext(path) ==
    LET b == Base(path)
    IN  IF LastIndex(b, Dot) = 0 THEN <<>>
        ELSE SubSeq(b, LastIndex(b, Dot), Len(b))

ExtJpg == <<46, 106, 112, 103>>        \* ".jpg"
ExtJpeg == <<46, 106, 112, 101, 103>>  \* ".jpeg"
ExtPng == <<46, 112, 110, 103>>        \* ".png"

isImageFile(name) == ToLower(Ext(name)) \in {ExtJpg, ExtJpeg, ExtPng}

\* Byte-wise string order, the order of os.ReadDir.
RECURSIVE StrLess(_, _)
StrLess(a, b) ==
    IF b = <<>> THEN FALSE
    ELSE IF a = <<>> THEN TRUE
    ELSE IF Head(a) # Head(b) THEN Head(a) < Head(b)
    ELSE StrLess(Tail(a), Tail(b))

RECURSIVE SortStrings(_)
SortStrings(S) ==
    IF S = {} THEN <<>>
    ELSE LET m == CHOOSE x \in S : \A y \in S \ {x} : StrLess(x, y)
         IN  <<m>> \o SortStrings(S \ {m})

\* strconv.Itoa for n >= 0 (the %d of fmt.Sprintf).
RECURSIVE Itoa(_)
Itoa(n) == IF n < 10 THEN <<48 + n>> ELSE Itoa(n \div 10) \o <<48 + (n % 10)>>

(***************************************************************************)
(* The URL slug generator.                                                 *)
(***************************************************************************)
\* A rune mapping that turns the space into '_'.
SlugRuneSpaceUnderscore(r) ==
    IF \/ (r >= 97 /\ r <= 122) \/ (r >= 48 /\ r <= 57)
       \/ r = Slash \/ r = Dot \/ r = Hyphen \/ r = Underscore
    THEN r
    ELSE IF r = Space THEN Underscore ELSE -1

\* The rune mapping of sanitizeURLPath: kept, turned into '-', or dropped (-1).
SlugRune(r) ==
    IF \/ (r >= 97 /\ r <= 122) \/ (r >= 48 /\ r <= 57)
       \/ r = Slash \/ r = Dot \/ r = Hyphen \/ r = Underscore
    THEN r
    ELSE IF r = Space THEN Hyphen ELSE -1

KeptRune(r) == r # -1

\* regexp `-+` replaced by "-".
RECURSIVE CollapseHyphens(_)
CollapseHyphens(str) ==
    IF Len(str) < 2 THEN str
    ELSE IF str[1] = Hyphen /\ str[2] = Hyphen THEN CollapseHyphens(Tail(str))
    ELSE <<Head(str)>> \o CollapseHyphens(Tail(str))

\* strings.Trim(str, "-").
RECURSIVE TrimLeftHyphens(_)
TrimLeftHyphens(str) ==
    IF str # <<>> /\ Head(str) = Hyphen THEN TrimLeftHyphens(Tail(str)) ELSE str
RECURSIVE TrimRightHyphens(_)
TrimRightHyphens(str) ==
    IF str # <<>> /\ str[Len(str)] = Hyphen
    THEN TrimRightHyphens(SubSeq(str, 1, Len(str) - 1)) ELSE str
TrimHyphens(str) == TrimRightHyphens(TrimLeftHyphens(str))

\* strings.Split(str, "/") and strings.Join(parts, "/").
RECURSIVE SplitSlash(_)
SplitSlash(str) ==
    LET at == {k \in 1..Len(str) : str[k] = Slash}
    IN  IF at = {} THEN <<str>>
        ELSE LET k == CHOOSE i \in at : \A j \in at : i <= j
             IN  <<SubSeq(str, 1, k - 1)>> \o SplitSlash(SubSeq(str, k + 1, Len(str)))
RECURSIVE JoinSlash(_)
JoinSlash(parts) ==
    IF Len(parts) = 1 THEN parts[1]
    ELSE parts[1] \o <<Slash>> \o JoinSlash(Tail(parts))

sanitizeURLPath(path) ==
    LET lower == ToLower(path)
        mapped == SelectSeq([k \in 1..Len(lower) |-> SlugRune(lower[k])], KeptRune)
        trimmed == TrimHyphens(CollapseHyphens(mapped))
        parts == SplitSlash(trimmed)
    IN  JoinSlash([k \in 1..Len(parts) |-> TrimHyphens(parts[k])])

MaxSlugTries == 10000

\* fmt.Sprintf("%s-%d%s", base, i, ext) of generateURLPath.
SlugWithSuffix(base, i, ext) == base \o <<Hyphen>> \o Itoa(i) \o ext

\* generateURLPath with a suffix on its first try too.
SlugCandidateSuffixed(filePath, i) ==
    LET urlPath == sanitizeURLPath(filePath)
        ext == Ext(urlPath)
    IN  SlugWithSuffix(TrimSuffix(urlPath, ext), i + 1, ext)

\* The i-th slug generateURLPath tries for a file path: the sanitized path
\* itself for i = 0, then base-i.ext.
SlugCandidate(filePath, i) ==
    LET urlPath == sanitizeURLPath(filePath)
        ext == Ext(urlPath)
    IN  IF i = 0 THEN urlPath
        ELSE SlugWithSuffix(TrimSuffix(urlPath, ext), i, ext)

(***************************************************************************)
(* ExifService.Extract.  A call meets a file (one that cannot be opened,   *)
(* a JPEG without an EXIF segment, one whose EXIF does not decode, or one  *)
(* with EXIF tags) and, when exiftool was found at start-up, an outcome of *)
(* running it.  A tag is a set: empty when the source lacks the tag, a     *)
(* singleton holding its raw value otherwise.  The exposure bias is held   *)
(* in tenths of an EV.  Of the record the fields CameraMake, ExposureComp, *)
(* Flash and WhiteBalance are modelled, and the capture time.              *)
(***************************************************************************)
EmptyInfo ==
    [CameraMake |-> "", ExposureComp |-> "", Flash |-> "", WhiteBalance |-> ""]

\* time.Time{}: the zero capture time.
ZeroTime == 0

NoTags == [make |-> {}, bias |-> {}, flash |-> {}, wb |-> {}, date |-> {}]

MakeTags == {{}, {"Canon"}}
BiasTags == {{}, {-3}, {0}, {10}}
FlashTags == {{}, {0}, {9}, {16}, {25}}
WhiteBalanceTags == {{}, {0}, {1}}
\* DateTimeOriginal: text that does not parse, or the time it parses to.
DateTags == {{}, {[valid |-> FALSE, t |-> ZeroTime]}, {[valid |-> TRUE, t |-> 1]}}

TagSets ==
    [make : MakeTags, bias : BiasTags, flash : FlashTags,
     wb : WhiteBalanceTags, date : DateTags]

FileStates == {"unopenable", "noexif", "corrupt", "exif"}
\* exec.Command(...).Output(): the binary is gone, it exits non-zero, it
\* prints something that is not JSON, it prints an empty array, it succeeds.
ToolOutcomes == {"absent", "exit", "garbage", "empty", "ok"}

\* exiftool cannot read a file that cannot be opened: it exits non-zero.
ExifInputs ==
    {in \in [hasExiftool : BOOLEAN, tool : ToolOutcomes, file : FileStates,
             tags : TagSets] :
        /\ in.file # "exif" => in.tags = NoTags
        /\ in.file = "unopenable" => in.tool \in {"absent", "exit"}}

\* The tags either strategy finds in the file.
TagsSeen(in) == IF in.file = "exif" THEN in.tags ELSE NoTags

One(tag) == CHOOSE v \in tag : TRUE

\* fmt.Sprintf("%.1f", v) for v given in tenths.
Fmt1(tenths) ==
    LET a == IF tenths < 0 THEN -tenths ELSE tenths
    IN  (IF tenths < 0 THEN "-" ELSE "") \o ToString(a \div 10) \o "."
            \o ToString(a % 10)

\* A decode that reads the fired bit alone.
decodeFlashFiredOnly(val) ==
    IF val % 2 = 1 THEN "Fired" ELSE "Did not fire"

decodeFlash(val) ==
    LET fired == val % 2 = 1
        mode == (val \div 8) % 4
        first == IF fired THEN "Fired" ELSE "Did not fire"
    IN  IF mode = 1 THEN first \o ", compulsory"
        ELSE IF mode = 2 THEN first \o ", suppressed"
        ELSE IF mode = 3 THEN first \o ", auto"
        ELSE first

\* getString, getFloat and getInt: the value under the key, the zero value
\* of the type when the key is missing.
getString(tag) == IF tag = {} THEN "" ELSE One(tag)
getFloat(tag) == IF tag = {} THEN 0 ELSE One(tag)
getInt(tag) == IF tag = {} THEN 0 ELSE One(tag)

Extracted(info, isNil, takenAt, err, strategy) ==
    [info |-> info, isNil |-> isNil, takenAt |-> takenAt, err |-> err,
     strategy |-> strategy]

extractWithGoexif(in) ==
    IF in.file = "unopenable"
    THEN Extracted(EmptyInfo, TRUE, ZeroTime, TRUE, "goexif")
    ELSE IF in.file # "exif"
    THEN Extracted(EmptyInfo, FALSE, ZeroTime, FALSE, "goexif")
    ELSE LET t == in.tags
             info ==
                 [CameraMake |-> getString(t.make),
                  ExposureComp |->
                      IF t.bias = {} THEN ""
                      ELSE IF One(t.bias) >= 0
                      THEN "+" \o Fmt1(One(t.bias)) \o " EV"
                      ELSE Fmt1(One(t.bias)) \o " EV",
                  Flash |-> IF t.flash = {} THEN "" ELSE decodeFlash(One(t.flash)),
                  WhiteBalance |->
                      IF t.wb = {} THEN ""
                      ELSE IF One(t.wb) = 0 THEN "Auto" ELSE "Manual"]
             takenAt ==
                 IF t.date # {} /\ One(t.date).valid THEN One(t.date).t
                 ELSE ZeroTime
         IN  Extracted(info, FALSE, takenAt, FALSE, "goexif")

extractWithExiftool(in) ==
    IF in.tool # "ok"
    THEN extractWithGoexif(in)
    ELSE LET t == TagsSeen(in)
             ec == getFloat(t.bias)
             info ==
                 [CameraMake |-> getString(t.make),
                  ExposureComp |->
                      IF ec # 0
                      THEN IF ec >= 0 THEN "+" \o Fmt1(ec) \o " EV"
                           ELSE Fmt1(ec) \o " EV"
                      ELSE "0 EV",
                  Flash |-> decodeFlash(getInt(t.flash)),
                  WhiteBalance |->
                      IF getInt(t.wb) = 0 THEN "Auto" ELSE "Manual"]
             takenAt ==
                 IF t.date # {} /\ One(t.date).valid THEN One(t.date).t
                 ELSE ZeroTime
         IN  Extracted(info, FALSE, takenAt, FALSE, "exiftool")

Extract(in) ==
    IF in.hasExiftool THEN extractWithExiftool(in) ELSE extractWithGoexif(in)

NotCalled == Extracted(EmptyInfo, TRUE, ZeroTime, FALSE, "none")

\* No Extract call is under study.
NoExif ==
    /\ exifIn = CHOOSE in \in ExifInputs : TRUE
    /\ exifOut = NotCalled

ExtractCall ==
    /\ exifOut.strategy = "none"
    /\ exifOut' = Extract(exifIn)
    /\ UNCHANGED <<exifIn, gpsVars, sysVars>>

(***************************************************************************)
(* The media tree.  The model's tree is drawn from a fixed universe of     *)
(* names: three JPEG files in the root, two of which sanitize to the same  *)
(* slug and the third to the first suffixed slug of that base, a hidden    *)
(* file, and a directory holding a PNG.                                    *)
(***************************************************************************)
FileA == <<65, 46, 106, 112, 103>>               \* "A.jpg"
FileA1 == <<97, 32, 49, 46, 106, 112, 103>>      \* "a 1.jpg"
Filea == <<97, 46, 106, 112, 103>>               \* "a.jpg"
FileHidden == <<46, 104, 46, 106, 112, 103>>     \* ".h.jpg"
DirD == <<100>>                                  \* "d"
FileB == <<100, 47, 98, 46, 112, 110, 103>>      \* "d/b.png"

FileUniverse == {FileA, FileA1, Filea, FileB}
DirUniverse == {DirD}

\* File contents: a JPEG whose IFD0 holds a GPS pointer, a JPEG without
\* EXIF, and the start of a PNG.
JpegGPS ==
    BuildFile([magic |-> "jpeg", pre |-> "app0", bo |-> "II", ifdOff |-> "ifd0",
               tags |-> <<"gps">>, extraCount |-> 0, lenMode |-> "exact",
               payload |-> "full", tail |-> "sos"])
JpegPlain == <<MarkerPrefix, MarkerSOI, MarkerPrefix, MarkerSOS, 18, 52>>
PngHead == <<137, 80, 78, 71>>

\* The contents a new file of that name may have.
NewContents(path) ==
    IF ToLower(Ext(path)) = ExtPng THEN {PngHead}
    ELSE IF path = Filea THEN {JpegGPS} ELSE {JpegPlain}

\* Whether imaging.Open / image.DecodeConfig can decode the bytes: the model
\* takes every stream that starts with the JPEG or the PNG magic as an image.
Decodable(bytes) ==
    Len(bytes) >= 2 /\ (Slice(bytes, 0, 2) = <<MarkerPrefix, MarkerSOI>>
                        \/ Slice(bytes, 0, 2) = <<137, 80>>)

\* os.ReadDir(mediaRoot/rel): the entries of the directory, sorted by name.
ReadDir(rel) ==
    LET names == {Base(d) : d \in {x \in dirs : Dir(x) = rel}}
                   \cup {Base(p) : p \in {x \in DOMAIN files : Dir(x) = rel}}
        sorted == SortStrings(names)
    IN  [k \in 1..Len(sorted) |->
            [name |-> sorted[k], isDir |-> Join(rel, sorted[k]) \in dirs]]

\* The directory mediaRoot/rel exists (the root always does: main creates it).
DirExists(rel) == rel = <<>> \/ rel \in dirs

(***************************************************************************)
(* The catalog.  A folder row is [id, parent, name, path], a photo row     *)
(* [id, folder, path, url, hidden]; parent / folder 0 and url NULL stand   *)
(* for SQL NULL.  The SERIAL sequences advance on every INSERT attempted.  *)
(***************************************************************************)
NULL == <<-1>>

MaxPhotoSeq == 3    \* photo ids the model hands out
MaxFolderSeq == 2   \* folder ids the model hands out

FolderIds == 1..MaxFolderSeq
PhotoIds == 1..MaxPhotoSeq

\* SELECT id FROM folders WHERE path = $1 (0: no row).
FolderIdByPath(path) ==
    IF \E f \in folders : f.path = path
    THEN (CHOOSE f \in folders : f.path = path).id ELSE 0

\* processPhoto without its existence check.
PhotoExistsUnchecked(path) == FALSE

\* SELECT EXISTS(SELECT 1 FROM photos WHERE path = $1).
PhotoExists(path) == \E p \in photos : p.path = path

\* SELECT EXISTS(SELECT 1 FROM photos WHERE url_path = $1).
URLExists(url) == \E p \in photos : p.url = url

\* INSERT INTO folders ... ON CONFLICT (path) DO UPDATE SET name = EXCLUDED.name
\* RETURNING id, on the rows fs: the rows after it, the id returned, and
\* whether the statement succeeded (parent_id must reference a row).
InsertFolder(fs, seq, parent, name, path) ==
    IF \E f \in fs : f.path = path
    THEN LET old == CHOOSE f \in fs : f.path = path
         IN  [ok |-> TRUE, id |-> old.id,
              rows |-> (fs \ {old}) \cup {[old EXCEPT !.name = name]}]
    ELSE IF parent # 0 /\ ~\E f \in fs : f.id = parent
         THEN [ok |-> FALSE, id |-> 0, rows |-> fs]
         ELSE [ok |-> TRUE, id |-> seq + 1,
               rows |-> fs \cup {[id |-> seq + 1, parent |-> parent,
                                  name |-> name, path |-> path]}]

\* The INSERT on a photos table without the UNIQUE constraint on path.
InsertPhotoNoUniquePath(ps, fs, seq, folder, path, url) ==
    IF (url # NULL /\ \E q \in ps : q.url = url)
          \/ (folder # 0 /\ ~\E f \in fs : f.id = folder)
    THEN [ok |-> FALSE, id |-> 0, rows |-> ps]
    ELSE [ok |-> TRUE, id |-> seq + 1,
          rows |-> ps \cup {[id |-> seq + 1, folder |-> folder, path |-> path,
                             url |-> url, hidden |-> FALSE]}]

\* The INSERT with ON CONFLICT (path) DO UPDATE SET url_path =
\* EXCLUDED.url_path: the slug of the insert replaces the one of the row.
InsertPhotoOverwrite(ps, fs, seq, folder, path, url) ==
    LET taken(u, but) == u # NULL /\ \E q \in ps \ but : q.url = u
    IN  IF \E p \in ps : p.path = path
        THEN LET old == CHOOSE p \in ps : p.path = path
             IN  IF taken(url, {old})
                 THEN [ok |-> FALSE, id |-> 0, rows |-> ps]
                 ELSE [ok |-> TRUE, id |-> old.id,
                       rows |-> (ps \ {old}) \cup {[old EXCEPT !.url = url]}]
        ELSE IF taken(url, {}) \/ (folder # 0 /\ ~\E f \in fs : f.id = folder)
             THEN [ok |-> FALSE, id |-> 0, rows |-> ps]
             ELSE [ok |-> TRUE, id |-> seq + 1,
                   rows |-> ps \cup {[id |-> seq + 1, folder |-> folder,
                                      path |-> path, url |-> url,
                                      hidden |-> FALSE]}]

\* INSERT INTO photos ... ON CONFLICT (path) DO UPDATE SET url_path =
\* COALESCE(photos.url_path, EXCLUDED.url_path) RETURNING id, on the rows ps,
\* under the UNIQUE constraints on path and url_path and the reference of
\* folder_id to the folder rows fs.
InsertPhoto(ps, fs, seq, folder, path, url) ==
    LET taken(u, but) == u # NULL /\ \E q \in ps \ but : q.url = u
    IN  IF \E p \in ps : p.path = path
        THEN LET old == CHOOSE p \in ps : p.path = path
                 new == IF old.url = NULL THEN url ELSE old.url
             IN  IF taken(new, {old})
                 THEN [ok |-> FALSE, id |-> 0, rows |-> ps]
                 ELSE [ok |-> TRUE, id |-> old.id,
                       rows |-> (ps \ {old}) \cup {[old EXCEPT !.url = new]}]
        ELSE IF taken(url, {}) \/ (folder # 0 /\ ~\E f \in fs : f.id = folder)
             THEN [ok |-> FALSE, id |-> 0, rows |-> ps]
             ELSE [ok |-> TRUE, id |-> seq + 1,
                   rows |-> ps \cup {[id |-> seq + 1, folder |-> folder,
                                      path |-> path, url |-> url,
                                      hidden |-> FALSE]}]

\* The ids of the folders below the folders S (ON DELETE CASCADE of parent_id).
RECURSIVE WithDescendants(_, _)
WithDescendants(fs, S) ==
    LET more == {f.id : f \in {g \in fs : g.parent \in S}}
    IN  IF more \subseteq S THEN S ELSE WithDescendants(fs, S \cup more)

(***************************************************************************)
(* The derivative cache.  A cache file is named by its size directory, the *)
(* photo id and the extension: cacheDir/<dir>/<id><ext>.                   *)
(***************************************************************************)
Tiers == {"small", "medium", "large"}
CacheDirs == {"small", "medium", "large", "placeholder"}

ThumbPath(id, photoPath, size) ==
    [dir |-> size, id |-> id,
     ext |-> IF HasSuffix(ToLower(photoPath), ExtPng) THEN ".png" ELSE ".jpg"]

PlaceholderPath(id) == [dir |-> "placeholder", id |-> id, ext |-> ".png"]

NoPath == [dir |-> "", id |-> 0, ext |-> ""]

\* What a derivative accessor returns, and the cache it leaves: the path,
\* whether it succeeded, whether it stat'ed the cache file, whether it
\* generated the derivative.
CacheResult(cfiles, index, path, ok, stat, gen) ==
    [files |-> cfiles, index |-> index, path |-> path, ok |-> ok,
     stat |-> stat, gen |-> gen]

\* GetThumbnailPathByID without the look-up in the existence index.
GetThumbnailPathByIDNoIndex(cfiles, index, photoID, photoPath, size) ==
    LET thumbPath == ThumbPath(photoID, photoPath, size)
    IN  IF thumbPath \in cfiles
        THEN CacheResult(cfiles, index \cup {thumbPath}, thumbPath, TRUE, TRUE, FALSE)
        ELSE IF photoPath \in DOMAIN files /\ Decodable(files[photoPath])
        THEN CacheResult(cfiles \cup {thumbPath}, index \cup {thumbPath},
                         thumbPath, TRUE, TRUE, TRUE)
        ELSE CacheResult(cfiles, index, NoPath, FALSE, TRUE, FALSE)

\* ThumbnailService.GetThumbnailPathByID on the cache (cfiles, index).
GetThumbnailPathByID(cfiles, index, photoID, photoPath, size) ==
    LET thumbPath == ThumbPath(photoID, photoPath, size)
    IN  IF thumbPath \in index
        THEN CacheResult(cfiles, index, thumbPath, TRUE, FALSE, FALSE)
        ELSE IF thumbPath \in cfiles
        THEN CacheResult(cfiles, index \cup {thumbPath}, thumbPath, TRUE, TRUE, FALSE)
        ELSE IF photoPath \in DOMAIN files /\ Decodable(files[photoPath])
        THEN CacheResult(cfiles \cup {thumbPath}, index \cup {thumbPath},
                         thumbPath, TRUE, TRUE, TRUE)
        ELSE CacheResult(cfiles, index, NoPath, FALSE, TRUE, FALSE)

\* ThumbnailService.GetPlaceholderPathByID: GeneratePlaceholder falls back to
\* a gray image and does not fail.
GetPlaceholderPathByID(cfiles, index, photoID) ==
    LET placeholderPath == PlaceholderPath(photoID)
    IN  IF placeholderPath \in index
        THEN CacheResult(cfiles, index, placeholderPath, TRUE, FALSE, FALSE)
        ELSE IF placeholderPath \in cfiles
        THEN CacheResult(cfiles, index \cup {placeholderPath}, placeholderPath,
                         TRUE, TRUE, FALSE)
        ELSE CacheResult(cfiles \cup {placeholderPath}, index \cup {placeholderPath},
                         placeholderPath, TRUE, TRUE, TRUE)

\* DeleteThumbnailsByID over the .jpg names only.
DeletedPathsJpgOnly(photoID) ==
    {[dir |-> d, id |-> photoID, ext |-> ".jpg"] : d \in CacheDirs}

\* The paths ThumbnailService.DeleteThumbnailsByID removes and evicts.
DeletedPaths(photoID) ==
    {[dir |-> d, id |-> photoID, ext |-> e] : d \in CacheDirs, e \in {".jpg", ".png"}}

\* The three GetThumbnailPathByID calls that end processPhoto.
WarmThumbnails(cfiles, index, photoID, photoPath) ==
    LET s == GetThumbnailPathByID(cfiles, index, photoID, photoPath, "small")
        m == GetThumbnailPathByID(s.files, s.index, photoID, photoPath, "medium")
    IN  GetThumbnailPathByID(m.files, m.index, photoID, photoPath, "large")

(***************************************************************************)
(* A second tree: two directories below Trips whose names differ in a      *)
(* space and a hyphen, each holding one photo.                             *)
(***************************************************************************)
\* "Trips"
DirTrips ==
    <<84, 114, 105, 112, 115>>
\* "Trips/2024 Paris"
DirParisSpace ==
    <<84, 114, 105, 112, 115, 47, 50, 48, 50, 52, 32, 80, 97, 114, 105,
    115>>
\* "Trips/2024-Paris"
DirParisHyphen ==
    <<84, 114, 105, 112, 115, 47, 50, 48, 50, 52, 45, 80, 97, 114, 105,
    115>>
\* "Trips/2024 Paris/IMG_0001.JPG"
FileParisFirst ==
    <<84, 114, 105, 112, 115, 47, 50, 48, 50, 52, 32, 80, 97, 114, 105,
    115, 47, 73, 77, 71, 95, 48, 48, 48, 49, 46, 74, 80, 71>>
\* "Trips/2024-Paris/IMG 0001.JPG"
FileParisSecond ==
    <<84, 114, 105, 112, 115, 47, 50, 48, 50, 52, 45, 80, 97, 114, 105,
    115, 47, 73, 77, 71, 32, 48, 48, 48, 49, 46, 74, 80, 71>>
\* "trips/2024-paris/img_0001.jpg"
SlugParisUnderscore ==
    <<116, 114, 105, 112, 115, 47, 50, 48, 50, 52, 45, 112, 97, 114, 105,
    115, 47, 105, 109, 103, 95, 48, 48, 48, 49, 46, 106, 112, 103>>
\* "trips/2024-paris/img_0001-1.jpg"
SlugParisUnderscore1 ==
    <<116, 114, 105, 112, 115, 47, 50, 48, 50, 52, 45, 112, 97, 114, 105,
    115, 47, 105, 109, 103, 95, 48, 48, 48, 49, 45, 49, 46, 106, 112,
    103>>
\* "trips/2024-paris/img-0001.jpg"
SlugParisHyphen ==
    <<116, 114, 105, 112, 115, 47, 50, 48, 50, 52, 45, 112, 97, 114, 105,
    115, 47, 105, 109, 103, 45, 48, 48, 48, 49, 46, 106, 112, 103>>

TripDirs == {DirTrips, DirParisSpace, DirParisHyphen}
TripFiles == {FileParisFirst, FileParisSecond}

\* A third tree: the directories "D" and "d", each holding b.png; the two
\* files sanitize to the same slug.
DirUpperD == <<68>>                                   \* "D"
FileUpperB == <<68, 47, 98, 46, 112, 110, 103>>       \* "D/b.png"
RaceDirs == {DirUpperD, DirD}
RaceFiles == {FileUpperB, FileB}

\* A JPEG without GPS entry whose last segment declares a length that runs
\* past the end of the file and of the buffer it was read into.
JpegHugeSegment ==
    BuildFile([magic |-> "jpeg", pre |-> "none", bo |-> "II", ifdOff |-> "ifd0",
               tags |-> <<>>, extraCount |-> 0, lenMode |-> "exact",
               payload |-> "full", tail |-> "hugeseg"])

\* The files of the walk, and the contents a new file of that name may have.
WalkFiles == {FileA, Filea, FileB}
WalkContents(path) ==
    IF path = FileA THEN NewContents(path) \cup {JpegHugeSegment}
    ELSE NewContents(path)
(***************************************************************************)
(* ScannerService.  A scan is a goroutine; its position is scan[s]: the    *)
(* stack of scanDir frames (the entries still to visit, the relative path  *)
(* and the folder id of the directory), and inside processPhoto the file,  *)
(* the slug tried and the id inserted; rescan records that the scan is a   *)
(* ScanAll started right after a ScanAll completed.  Each action is one    *)
(* statement against the database together with the local work around it. *)
(***************************************************************************)
Scanners == {1, 2}

IdleScan ==
    [pc |-> "idle", kind |-> "", rescan |-> FALSE, stack |-> <<>>, rel |-> <<>>,
     try |-> 0, slug |-> <<>>, pid |-> 0, wrote |-> <<>>, meta |-> <<>>]

NoDel == [photos |-> {}, folders |-> {}, cache |-> {}]

\* What the last completed operation was and what it returned; del holds
\* the photo rows, the folder ids and the cache paths it removed, err the
\* error a scan call returned.
Reply(op, id, tier, r, del) ==
    [op |-> op, id |-> id, tier |-> tier, path |-> r.path, ok |-> r.ok,
     stat |-> r.stat, gen |-> r.gen, del |-> del, err |-> ""]

Plain(ok) == [path |-> NoPath, ok |-> ok, stat |-> FALSE, gen |-> FALSE]

\* pgx.ErrNoRows of a QueryRow(...).Scan, and the error of os.ReadDir.
ErrNoRows == "no rows in result set"
ErrReadDir == "open: no such file or directory"

\* A scan call that returned err.
Failure(op, err) == [Reply(op, 0, "", Plain(FALSE), NoDel) EXCEPT !.err = err]

\* adminScan and adminScanFolder answer "started" and let the scan run.
Started == Reply("started", 0, "", Plain(TRUE), NoDel)

Idle(s) == scan[s].pc = "idle"
AllIdle == \A s \in Scanners : Idle(s)

Frame(s) == scan[s].stack[Len(scan[s].stack)]
Entry(s) == Frame(s).entries[1]
EntryRel(s) == Join(Frame(s).rel, Entry(s).name)

\* The stack with the entry under the cursor consumed.
Advance(s) ==
    [scan[s].stack EXCEPT ![Len(scan[s].stack)].entries = Tail(@)]

\* scanDir(rel, parent) entered: the frame its os.ReadDir yields.
NewFrame(rel, parent) == [rel |-> rel, parent |-> parent, entries |-> ReadDir(rel)]

\* Files without a photo row and directories without a folder row: the
\* inserts a scan started now can make.
PendingPhotos ==
    Cardinality({p \in DOMAIN files :
                    /\ isImageFile(Base(p))
                    /\ ~HasPrefix(Base(p), <<Dot>>)
                    /\ ~\E q \in photos : q.path = p})
PendingFolders == Cardinality({d \in dirs : ~\E f \in folders : f.path = d})
\* A scan starts only when the ids of the model suffice for the rows it can
\* insert; concurrent scans that insert the same rows twice stop at the
\* last id.
\* The last folder id of the model: a first row for every directory of the
\* tree, and MaxFolderSeq - 1 rows made again after deletions.
MaxFolderId == MaxFolderSeq + Cardinality(dirs) - 1

WithinIds ==
    /\ photoSeq + PendingPhotos <= MaxPhotoSeq
    /\ folderSeq + PendingFolders <= MaxFolderId

\* ScanAll: scanDir("", nil).
StartScanAll(s) ==
    /\ Idle(s)
    /\ WithinIds
    /\ scan' = [scan EXCEPT ![s] =
                   [IdleScan EXCEPT !.pc = "loop", !.kind = "ScanAll",
                       !.rescan = (reply.op = "ScanAll" /\ reply.ok),
                       !.stack = <<NewFrame(<<>>, 0)>>]]
    /\ reply' = Started
    /\ UNCHANGED <<gpsVars, exifVars, regen, derivVars, treeVars, catalogVars, cacheVars>>

\* ScanFolder without the lookup of the folder row: scanDir(folderPath, nil).
StartScanFolderUnchecked(s, folderPath) ==
    /\ Idle(s)
    /\ WithinIds
    /\ scan' = [scan EXCEPT ![s] =
                   [IdleScan EXCEPT !.pc = "loop", !.kind = "ScanFolder",
                       !.stack = <<NewFrame(folderPath, 0)>>]]
    /\ reply' = Started
    /\ UNCHANGED <<gpsVars, exifVars, regen, derivVars, treeVars, catalogVars, cacheVars>>

\* ScanFolder(folderPath): the folder row is looked up, then scanDir runs on
\* it; a missing row or an unreadable directory ends the call with an error.
StartScanFolder(s, folderPath) ==
    /\ Idle(s)
    /\ WithinIds
    /\ IF folderPath # <<>> /\ FolderIdByPath(folderPath) = 0
       THEN /\ reply' = Failure("ScanFolder", ErrNoRows)
            /\ UNCHANGED scan
       ELSE IF ~DirExists(folderPath)
       THEN /\ reply' = Failure("ScanFolder", ErrReadDir)
            /\ UNCHANGED scan
       ELSE /\ scan' = [scan EXCEPT ![s] =
                           [IdleScan EXCEPT !.pc = "loop", !.kind = "ScanFolder",
                               !.stack = <<NewFrame(folderPath, FolderIdByPath(folderPath))>>]]
            /\ reply' = Started
    /\ UNCHANGED <<gpsVars, exifVars, regen, derivVars, treeVars, catalogVars, cacheVars>>

\* The entries of a directory are exhausted: scanDir returns nil, to the
\* scanDir above it or to the caller of the scan.
ScanReturn(s) ==
    /\ scan[s].pc = "loop"
    /\ Frame(s).entries = <<>>
    /\ IF Len(scan[s].stack) = 1
       THEN /\ scan' = [scan EXCEPT ![s] = IdleScan]
            /\ reply' = Reply(scan[s].kind, 0, "", Plain(TRUE), NoDel)
       ELSE /\ scan' = [scan EXCEPT ![s].stack = SubSeq(@, 1, Len(@) - 1)]
            /\ UNCHANGED reply
    /\ UNCHANGED <<gpsVars, exifVars, regen, derivVars, treeVars, catalogVars, cacheVars>>

\* An entry that is hidden, or a file that is not an image, is passed over.
ScanSkip(s) ==
    /\ scan[s].pc = "loop"
    /\ Frame(s).entries # <<>>
    /\ IF HasPrefix(Entry(s).name, <<Dot>>) THEN TRUE
       ELSE ~Entry(s).isDir /\ ~isImageFile(Entry(s).name)
    /\ scan' = [scan EXCEPT ![s].stack = Advance(s)]
    /\ UNCHANGED <<gpsVars, exifVars, regen, derivVars, treeVars, catalogVars, cacheVars, reply>>

\* A directory entry: ensureFolder's SELECT.  With a row, scanDir descends
\* (a directory that cannot be read is logged and passed over); without
\* one, the INSERT follows.
ScanEnterDir(s) ==
    /\ scan[s].pc = "loop"
    /\ Frame(s).entries # <<>>
    /\ ~HasPrefix(Entry(s).name, <<Dot>>)
    /\ Entry(s).isDir
    /\ LET id == FolderIdByPath(EntryRel(s))
       IN  scan' = [scan EXCEPT ![s] =
              IF id = 0
              THEN [@ EXCEPT !.pc = "ensure", !.rel = EntryRel(s)]
              ELSE IF DirExists(EntryRel(s))
              THEN [@ EXCEPT !.stack = Append(Advance(s), NewFrame(EntryRel(s), id))]
              ELSE [@ EXCEPT !.stack = Advance(s)]]
    /\ UNCHANGED <<gpsVars, exifVars, regen, derivVars, treeVars, catalogVars, cacheVars, reply>>

\* ensureFolder's INSERT ... ON CONFLICT (path) DO UPDATE ... RETURNING id.
ScanEnsureInsert(s) ==
    /\ scan[s].pc = "ensure"
    /\ folderSeq < MaxFolderId
    /\ LET r == InsertFolder(folders, folderSeq, Frame(s).parent,
                             Base(scan[s].rel), scan[s].rel)
       IN  /\ folders' = r.rows
           /\ folderSeq' = folderSeq + 1
           /\ scan' = [scan EXCEPT ![s] =
                 IF r.ok /\ DirExists(scan[s].rel)
                 THEN [@ EXCEPT !.pc = "loop", !.rel = <<>>,
                          !.stack = Append(Advance(s), NewFrame(scan[s].rel, r.id))]
                 ELSE [@ EXCEPT !.pc = "loop", !.rel = <<>>, !.stack = Advance(s)]]
    /\ UNCHANGED <<gpsVars, exifVars, regen, derivVars, treeVars, photos, photoSeq, cacheVars, reply>>

\* processPhoto without its existence check: every image entry is processed.
ScanPhotoCheckNoLookup(s) ==
    /\ scan[s].pc = "loop"
    /\ Frame(s).entries # <<>>
    /\ ~HasPrefix(Entry(s).name, <<Dot>>)
    /\ ~Entry(s).isDir
    /\ isImageFile(Entry(s).name)
    /\ scan' = [scan EXCEPT ![s].pc = "strip", ![s].rel = EntryRel(s)]
    /\ UNCHANGED <<gpsVars, exifVars, regen, derivVars, treeVars, catalogVars, cacheVars, reply>>

\* An image entry: processPhoto's SELECT EXISTS; a catalogued path returns.
ScanPhotoCheck(s) ==
    /\ scan[s].pc = "loop"
    /\ Frame(s).entries # <<>>
    /\ ~HasPrefix(Entry(s).name, <<Dot>>)
    /\ ~Entry(s).isDir
    /\ isImageFile(Entry(s).name)
    /\ scan' = [scan EXCEPT ![s] =
          IF PhotoExists(EntryRel(s))
          THEN [@ EXCEPT !.stack = Advance(s)]
          ELSE [@ EXCEPT !.pc = "strip", !.rel = EntryRel(s)]]
    /\ UNCHANGED <<gpsVars, exifVars, regen, derivVars, treeVars, catalogVars, cacheVars, reply>>

\* A panic in a scan goroutine is not recovered: the program ends, and with
\* it every scan.
CrashedScan == [IdleScan EXCEPT !.pc = "crashed"]
Crashed == \E s \in Scanners : scan[s].pc = "crashed"

\* os.Stat, StripGPS, Extract, GetImageDimensions and GenerateBlurhash: the
\* file is rewritten when a GPS entry was zeroed.  A file that is gone ends
\* processPhoto with the error; a StripGPS that slices beyond the capacity
\* of its buffer panics.
ScanStrip(s) ==
    /\ scan[s].pc = "strip"
    /\ IF scan[s].rel \notin DOMAIN files
       THEN /\ scan' = [scan EXCEPT ![s].pc = "loop", ![s].rel = <<>>,
                                    ![s].stack = Advance(s)]
            /\ UNCHANGED files
       ELSE IF stripGPSFromJPEG(files[scan[s].rel]).panicked
       THEN /\ scan' = [t \in Scanners |-> CrashedScan]
            /\ UNCHANGED files
       ELSE /\ files' = [files EXCEPT ![scan[s].rel] = FileAfterStrip(@)]
            /\ scan' = [scan EXCEPT ![s].pc = "slug", ![s].try = 0]
    /\ UNCHANGED <<gpsVars, exifVars, regen, derivVars, dirs, catalogVars, cacheVars, reply>>

\* processPhoto with Extract run on the file as StripGPS found it.
ScanStripFileAfterExtract(s) ==
    /\ scan[s].pc = "strip"
    /\ IF scan[s].rel \notin DOMAIN files
       THEN /\ scan' = [scan EXCEPT ![s].pc = "loop", ![s].rel = <<>>,
                                    ![s].stack = Advance(s)]
            /\ UNCHANGED files
       ELSE IF stripGPSFromJPEG(files[scan[s].rel]).panicked
       THEN /\ scan' = [t \in Scanners |-> CrashedScan]
            /\ UNCHANGED files
       ELSE /\ files' = [files EXCEPT ![scan[s].rel] = FileAfterStrip(@)]
            /\ scan' = [scan EXCEPT ![s].pc = "extract",
                                    ![s].wrote = files'[scan[s].rel],
                                    ![s].meta = files[scan[s].rel]]
    /\ UNCHANGED <<gpsVars, exifVars, regen, derivVars, dirs, catalogVars, cacheVars, reply>>

\* os.Stat and StripGPS as a step of their own: wrote holds the bytes of the
\* file when StripGPS has returned.
ScanStripFile(s) ==
    /\ scan[s].pc = "strip"
    /\ IF scan[s].rel \notin DOMAIN files
       THEN /\ scan' = [scan EXCEPT ![s].pc = "loop", ![s].rel = <<>>,
                                    ![s].stack = Advance(s)]
            /\ UNCHANGED files
       ELSE IF stripGPSFromJPEG(files[scan[s].rel]).panicked
       THEN /\ scan' = [t \in Scanners |-> CrashedScan]
            /\ UNCHANGED files
       ELSE /\ files' = [files EXCEPT ![scan[s].rel] = FileAfterStrip(@)]
            /\ scan' = [scan EXCEPT ![s].pc = "extract",
                                    ![s].wrote = files'[scan[s].rel]]
    /\ UNCHANGED <<gpsVars, exifVars, regen, derivVars, dirs, catalogVars, cacheVars, reply>>

\* Extract, GetImageDimensions and GenerateBlurhash open the file: meta
\* holds the bytes Extract decodes, when it has not read the file before.
ScanExtract(s) ==
    /\ scan[s].pc = "extract"
    /\ scan' = [scan EXCEPT ![s].pc = "slug", ![s].try = 0,
                            ![s].meta = IF scan[s].meta # <<>> THEN @
                                        ELSE IF scan[s].rel \in DOMAIN files
                                        THEN files[scan[s].rel] ELSE <<>>]
    /\ UNCHANGED <<gpsVars, exifVars, regen, derivVars, treeVars, catalogVars, cacheVars, reply>>

\* generateURLPath: one SELECT EXISTS on the candidate slug.
ScanSlug(s) ==
    /\ scan[s].pc = "slug"
    /\ LET candidate == SlugCandidate(scan[s].rel, scan[s].try)
       IN  scan' = [scan EXCEPT ![s] =
              IF URLExists(candidate) /\ scan[s].try < MaxSlugTries
              THEN [@ EXCEPT !.try = @ + 1]
              ELSE [@ EXCEPT !.pc = "insert", !.slug = candidate, !.try = 0]]
    /\ UNCHANGED <<gpsVars, exifVars, regen, derivVars, treeVars, catalogVars, cacheVars, reply>>

\* processPhoto's INSERT ... ON CONFLICT (path) DO UPDATE ... RETURNING id.
ScanInsert(s) ==
    /\ scan[s].pc = "insert"
    /\ photoSeq < MaxPhotoSeq
    /\ LET r == InsertPhoto(photos, folders, photoSeq, Frame(s).parent,
                            scan[s].rel, scan[s].slug)
       IN  /\ photos' = r.rows
           /\ photoSeq' = photoSeq + 1
           /\ scan' = [scan EXCEPT ![s] =
                 IF r.ok
                 THEN [@ EXCEPT !.pc = "thumbs", !.pid = r.id, !.slug = <<>>,
                          !.wrote = <<>>, !.meta = <<>>]
                 ELSE [@ EXCEPT !.pc = "loop", !.rel = <<>>, !.slug = <<>>,
                          !.wrote = <<>>, !.meta = <<>>, !.stack = Advance(s)]]
    /\ UNCHANGED <<gpsVars, exifVars, regen, derivVars, treeVars, folders, folderSeq, cacheVars, reply>>

\* The small, medium and large thumbnails are made; their errors are dropped.
ScanThumbs(s) ==
    /\ scan[s].pc = "thumbs"
    /\ LET r == WarmThumbnails(cacheFiles, existsCache, scan[s].pid, scan[s].rel)
       IN  /\ cacheFiles' = r.files
           /\ existsCache' = r.index
    /\ scan' = [scan EXCEPT ![s].pc = "loop", ![s].rel = <<>>, ![s].pid = 0,
                            ![s].stack = Advance(s)]
    /\ UNCHANGED <<gpsVars, exifVars, regen, derivVars, treeVars, catalogVars, reply>>

(***************************************************************************)
(* The operations that run when no scan is in progress.                    *)
(***************************************************************************)

\* CleanOrphans with the folder statement run before the photo deletes.
CleanOrphansRowsFoldersFirst(ps, fs, present) ==
    LET orphanIDs == {p.id : p \in {q \in ps : q.path \notin present}}
        emptyIDs == {f.id : f \in {g \in fs : /\ ~\E p \in ps : p.folder = g.id
                                              /\ ~\E sf \in fs : sf.parent = g.id}}
    IN  [photos |-> {p \in ps : p.id \notin orphanIDs},
         folders |-> {f \in fs : f.id \notin emptyIDs}]

\* CleanOrphans on the rows (ps, fs) with the files present on disk: the
\* photo rows whose file is gone are deleted, then the folder rows that are
\* left without photo rows and without sub-folder rows.
CleanOrphansRows(ps, fs, present) ==
    LET orphanIDs == {p.id : p \in {q \in ps : q.path \notin present}}
        kept == {p \in ps : p.id \notin orphanIDs}
        emptyIDs == {f.id : f \in {g \in fs : /\ ~\E p \in kept : p.folder = g.id
                                              /\ ~\E sf \in fs : sf.parent = g.id}}
    IN  [photos |-> kept, folders |-> {f \in fs : f.id \notin emptyIDs}]

CleanOrphans ==
    /\ AllIdle
    /\ LET r == CleanOrphansRows(photos, folders, DOMAIN files)
       IN  /\ photos' = r.photos
           /\ folders' = r.folders
           /\ reply' = Reply("CleanOrphans", 0, "", Plain(TRUE),
                             [photos |-> photos \ r.photos,
                              folders |-> {f.id : f \in folders \ r.folders},
                              cache |-> {}])
    /\ UNCHANGED <<gpsVars, exifVars, regen, derivVars, treeVars, folderSeq, photoSeq, cacheVars, scan>>

\* adminDeletePhoto: the row is deleted; when it had a path, the derivatives
\* of the id and the original file are removed.
adminDeletePhoto(id) ==
    /\ AllIdle
    /\ LET rows == {p \in photos : p.id = id}
           gone == IF rows = {} THEN {} ELSE DeletedPaths(id)
           path == IF rows = {} THEN <<>> ELSE (CHOOSE p \in rows : TRUE).path
       IN  /\ photos' = photos \ rows
           /\ cacheFiles' = cacheFiles \ gone
           /\ existsCache' = existsCache \ gone
           /\ partial' = partial \ gone
           /\ files' = [p \in DOMAIN files \ {path} |-> files[p]]
           /\ reply' = Reply("adminDeletePhoto", id, "", Plain(TRUE),
                             [photos |-> rows, folders |-> {},
                              cache |-> (cacheFiles \cup existsCache) \cap gone])
    /\ UNCHANGED <<gpsVars, exifVars, regen, req, dirs, folders, folderSeq, photoSeq, scan>>

\* adminDeleteFolder: DELETE FROM folders WHERE id = $1; the sub-folders and
\* the photos of all of them go with it (ON DELETE CASCADE).
adminDeleteFolder(id) ==
    /\ AllIdle
    /\ LET ids == IF \E f \in folders : f.id = id
                  THEN WithDescendants(folders, {id}) ELSE {}
       IN  /\ folders' = {f \in folders : f.id \notin ids}
           /\ photos' = {p \in photos : p.folder \notin ids}
           /\ reply' = Reply("adminDeleteFolder", id, "", Plain(TRUE),
                             [photos |-> {p \in photos : p.folder \in ids},
                              folders |-> ids, cache |-> {}])
    /\ UNCHANGED <<gpsVars, exifVars, regen, derivVars, treeVars, folderSeq, photoSeq, cacheVars, scan>>

NotFound == Reply("NotFound", 0, "", Plain(FALSE), NoDel)

\* serveThumbnail: 404 without a row, else the thumbnail accessor.
serveThumbnail(id, size) ==
    /\ AllIdle
    /\ IF \E p \in photos : p.id = id
       THEN LET path == (CHOOSE p \in photos : p.id = id).path
                r == GetThumbnailPathByID(cacheFiles, existsCache, id, path, size)
            IN  /\ cacheFiles' = r.files
                /\ existsCache' = r.index
                /\ reply' = Reply("serveThumbnail", id, size, r, NoDel)
       ELSE /\ reply' = NotFound
            /\ UNCHANGED cacheVars
    /\ UNCHANGED <<gpsVars, exifVars, regen, derivVars, treeVars, catalogVars, scan>>

\* servePlaceholder: 404 without a row, else the placeholder accessor.
servePlaceholder(id) ==
    /\ AllIdle
    /\ IF \E p \in photos : p.id = id
       THEN LET r == GetPlaceholderPathByID(cacheFiles, existsCache, id)
            IN  /\ cacheFiles' = r.files
                /\ existsCache' = r.index
                /\ reply' = Reply("servePlaceholder", id, "placeholder", r, NoDel)
       ELSE /\ reply' = NotFound
            /\ UNCHANGED cacheVars
    /\ UNCHANGED <<gpsVars, exifVars, regen, derivVars, treeVars, catalogVars, scan>>

(***************************************************************************)
(* The media tree changes outside the program: files are copied in and     *)
(* deleted.                                                                *)
(***************************************************************************)
TreeChanged == Reply("tree", 0, "", Plain(TRUE), NoDel)

AddFile(path, content) ==
    /\ AllIdle
    /\ path \notin DOMAIN files
    /\ DirExists(Dir(path))
    /\ files' = [p \in DOMAIN files \cup {path} |->
                    IF p = path THEN content ELSE files[p]]
    /\ reply' = TreeChanged
    /\ UNCHANGED <<gpsVars, exifVars, regen, derivVars, dirs, catalogVars, cacheVars, scan>>

RemoveFile(path) ==
    /\ AllIdle
    /\ path \in DOMAIN files
    /\ files' = [p \in DOMAIN files \ {path} |-> files[p]]
    /\ reply' = TreeChanged
    /\ UNCHANGED <<gpsVars, exifVars, regen, derivVars, dirs, catalogVars, cacheVars, scan>>

\* A file is deleted while a scan is under way.
VanishFile(path) ==
    /\ ~AllIdle
    /\ ~Crashed
    /\ path \in DOMAIN files
    /\ files' = [p \in DOMAIN files \ {path} |-> files[p]]
    /\ UNCHANGED <<gpsVars, exifVars, regen, derivVars, dirs, catalogVars, cacheVars, scan, reply>>

(***************************************************************************)
(* Derivative requests step by step.  Every HTTP request runs in a         *)
(* goroutine of its own, and the accessors hold no lock: a step is one     *)
(* look-up in the existence index, one os.Stat, the creation of the cache  *)
(* file, the writing of its bytes, or one Store into the index.            *)
(***************************************************************************)
Requesters == {1, 2}

IdleReq ==
    [pc |-> "idle", op |-> "", id |-> 0, tier |-> "", src |-> <<>>,
     path |-> NoPath, gen |-> FALSE]

\* What the accessor of request r returns to its handler.
Returned(r, ok) ==
    Reply(req[r].op, req[r].id, req[r].tier,
          [path |-> IF ok THEN req[r].path ELSE NoPath, ok |-> ok,
           stat |-> TRUE, gen |-> req[r].gen], NoDel)

\* serveThumbnail and servePlaceholder up to the call of the accessor: 404
\* without a row.
ServeStart(r, id, size) ==
    /\ req[r].pc = "idle"
    /\ IF \E p \in photos : p.id = id
       THEN LET src == (CHOOSE p \in photos : p.id = id).path
            IN  /\ req' = [req EXCEPT ![r] =
                      [pc |-> "load",
                       op |-> IF size = "placeholder" THEN "servePlaceholder"
                              ELSE "serveThumbnail",
                       id |-> id, tier |-> size, src |-> src,
                       path |-> IF size = "placeholder" THEN PlaceholderPath(id)
                                ELSE ThumbPath(id, src, size),
                       gen |-> FALSE]]
                /\ UNCHANGED reply
       ELSE /\ reply' = NotFound
            /\ UNCHANGED req
    /\ UNCHANGED <<gpsVars, exifVars, regen, partial, treeVars, catalogVars,
                   cacheVars, scan>>

\* existsCache.Load: a hit returns the path.
DerivLoad(r) ==
    /\ req[r].pc = "load"
    /\ IF req[r].path \in existsCache
       THEN /\ reply' = [Returned(r, TRUE) EXCEPT !.stat = FALSE]
            /\ req' = [req EXCEPT ![r] = IdleReq]
       ELSE /\ req' = [req EXCEPT ![r].pc = "stat"]
            /\ UNCHANGED reply
    /\ UNCHANGED <<gpsVars, exifVars, regen, partial, treeVars, catalogVars,
                   cacheVars, scan>>

\* os.Stat on the cache path: a file that is there, whatever it holds, goes
\* to the index.  Without one the derivative is generated: the thumbnail
\* from the source, which has to open and decode, the placeholder from the
\* blurhash.
DerivStat(r) ==
    /\ req[r].pc = "stat"
    /\ IF req[r].path \in cacheFiles
       THEN /\ req' = [req EXCEPT ![r].pc = "store"]
            /\ UNCHANGED reply
       ELSE IF /\ req[r].tier # "placeholder"
               /\ ~(req[r].src \in DOMAIN files /\ Decodable(files[req[r].src]))
       THEN /\ reply' = Returned(r, FALSE)
            /\ req' = [req EXCEPT ![r] = IdleReq]
       ELSE /\ req' = [req EXCEPT ![r].pc = "create", ![r].gen = TRUE]
            /\ UNCHANGED reply
    /\ UNCHANGED <<gpsVars, exifVars, regen, partial, treeVars, catalogVars,
                   cacheVars, scan>>

\* os.Create of imaging.Save and of GetPlaceholderPathByID: the file is
\* there, empty.
DerivCreate(r) ==
    /\ req[r].pc = "create"
    /\ cacheFiles' = cacheFiles \cup {req[r].path}
    /\ partial' = partial \cup {req[r].path}
    /\ req' = [req EXCEPT ![r].pc = "write"]
    /\ UNCHANGED <<gpsVars, exifVars, regen, treeVars, catalogVars, existsCache,
                   scan, reply>>

\* The encoder writes the bytes and the file is closed.  When the encoding
\* fails part-way the accessor returns the error and leaves the file as it
\* is.  A file another request is still writing stays incomplete.
DerivWrite(r, ok) ==
    /\ req[r].pc = "write"
    /\ IF ok
       THEN /\ partial' =
                  IF \E o \in Requesters \ {r} :
                         req[o].pc = "write" /\ req[o].path = req[r].path
                  THEN partial ELSE partial \ {req[r].path}
            /\ req' = [req EXCEPT ![r].pc = "store"]
            /\ UNCHANGED reply
       ELSE /\ reply' = Returned(r, FALSE)
            /\ req' = [req EXCEPT ![r] = IdleReq]
            /\ UNCHANGED partial
    /\ UNCHANGED <<gpsVars, exifVars, regen, treeVars, catalogVars, cacheVars, scan>>

\* existsCache.Store and the return of the path.
DerivStore(r) ==
    /\ req[r].pc = "store"
    /\ existsCache' = existsCache \cup {req[r].path}
    /\ reply' = Returned(r, TRUE)
    /\ req' = [req EXCEPT ![r] = IdleReq]
    /\ UNCHANGED <<gpsVars, exifVars, regen, partial, treeVars, catalogVars,
                   cacheFiles, scan>>

DerivStep(r) ==
    \/ DerivLoad(r)
    \/ DerivStat(r)
    \/ DerivCreate(r)
    \/ \E ok \in BOOLEAN : DerivWrite(r, ok)
    \/ DerivStore(r)

\* PrewarmCache: every file of the four cache directories goes to the index.
PrewarmCache ==
    /\ existsCache' = existsCache \cup cacheFiles
    /\ reply' = Reply("PrewarmCache", 0, "", Plain(TRUE), NoDel)
    /\ UNCHANGED <<gpsVars, exifVars, regen, derivVars, treeVars, catalogVars,
                   cacheFiles, scan>>

(***************************************************************************)
(* The hidden flag and the public endpoints of a photo.                    *)
(***************************************************************************)
\* adminToggleHide: UPDATE photos SET hidden = NOT hidden WHERE id = $1.
adminToggleHide(id) ==
    /\ photos' = {IF p.id = id THEN [p EXCEPT !.hidden = ~@] ELSE p : p \in photos}
    /\ reply' = Reply("adminToggleHide", id, "", Plain(TRUE), NoDel)
    /\ UNCHANGED <<gpsVars, exifVars, regen, derivVars, treeVars, folders, folderSeq,
                   photoSeq, cacheVars, scan>>

\* isPathSafe: the cleaned path holds no "..".
isPathSafe(path) ==
    ~\E k \in 1..(Len(path) - 1) : path[k] = Dot /\ path[k + 1] = Dot

\* serveOriginal: 404 without a row, for a hidden photo and for an unsafe
\* path; else the file of the photo is served.
serveOriginal(id) ==
    /\ reply' =
          IF \E p \in photos : p.id = id /\ ~p.hidden /\ isPathSafe(p.path)
          THEN Reply("serveOriginal", id, "", Plain(TRUE), NoDel)
          ELSE NotFound
    /\ UNCHANGED <<gpsVars, exifVars, regen, derivVars, treeVars, catalogVars,
                   cacheVars, scan>>

\* getPhotoByID: SELECT ... FROM photos WHERE id = $1 AND hidden = false.
getPhotoByID(id) == {p \in photos : p.id = id /\ ~p.hidden}

\* publicPhotoByID: 404 when getPhotoByID finds no row; else a redirect to
\* the page of the slug or the page itself.
publicPhotoByID(id) ==
    /\ reply' =
          IF getPhotoByID(id) = {} THEN NotFound
          ELSE Reply("publicPhotoByID", id, "", Plain(TRUE), NoDel)
    /\ UNCHANGED <<gpsVars, exifVars, regen, derivVars, treeVars, catalogVars,
                   cacheVars, scan>>

(***************************************************************************)
(* ScannerService.RegenerateURLPaths, a goroutine of its own: the rows are *)
(* read, every url_path is set to NULL, then each row read gets a slug     *)
(* from generateURLPath and an UPDATE whose error is dropped.              *)
(***************************************************************************)
IdleRegen == [pc |-> "idle", todo |-> <<>>, try |-> 0, slug |-> <<>>]

\* SELECT id, path FROM photos ORDER BY id.
RECURSIVE RowsById(_)
RowsById(ps) ==
    IF ps = {} THEN <<>>
    ELSE LET first == CHOOSE p \in ps : \A q \in ps : p.id <= q.id
         IN  <<[id |-> first.id, path |-> first.path]>> \o RowsById(ps \ {first})

\* UPDATE photos SET url_path = url WHERE id = id, under the UNIQUE
\* constraint on url_path; a violation leaves the rows as they are.
UpdateURL(ps, id, url) ==
    IF \E q \in ps : q.id # id /\ q.url = url THEN ps
    ELSE {IF p.id = id THEN [p EXCEPT !.url = url] ELSE p : p \in ps}

RegenStart ==
    /\ regen.pc = "idle"
    /\ ~Crashed
    /\ regen' = [IdleRegen EXCEPT !.pc = "null", !.todo = RowsById(photos)]
    /\ reply' = Started
    /\ UNCHANGED <<gpsVars, exifVars, derivVars, treeVars, catalogVars, cacheVars, scan>>

\* UPDATE photos SET url_path = NULL; without rows read, the call returns.
RegenNull ==
    /\ regen.pc = "null"
    /\ photos' = {[p EXCEPT !.url = NULL] : p \in photos}
    /\ IF regen.todo = <<>>
       THEN /\ regen' = IdleRegen
            /\ reply' = Reply("RegenerateURLPaths", 0, "", Plain(TRUE), NoDel)
       ELSE /\ regen' = [regen EXCEPT !.pc = "slug"]
            /\ UNCHANGED reply
    /\ UNCHANGED <<gpsVars, exifVars, derivVars, treeVars, folders, folderSeq, photoSeq,
                   cacheVars, scan>>

\* generateURLPath for the row at the head: one SELECT EXISTS.
RegenSlug ==
    /\ regen.pc = "slug"
    /\ LET candidate == SlugCandidate(regen.todo[1].path, regen.try)
       IN  regen' =
              IF URLExists(candidate) /\ regen.try < MaxSlugTries
              THEN [regen EXCEPT !.try = @ + 1]
              ELSE [regen EXCEPT !.pc = "update", !.slug = candidate, !.try = 0]
    /\ UNCHANGED <<gpsVars, exifVars, derivVars, treeVars, catalogVars, cacheVars, scan, reply>>

\* UPDATE photos SET url_path = $1 WHERE id = $2 for the row at the head;
\* after the last row the call returns nil.
RegenUpdate ==
    /\ regen.pc = "update"
    /\ photos' = UpdateURL(photos, regen.todo[1].id, regen.slug)
    /\ IF Len(regen.todo) = 1
       THEN /\ regen' = IdleRegen
            /\ reply' = Reply("RegenerateURLPaths", 0, "", Plain(TRUE), NoDel)
       ELSE /\ regen' = [regen EXCEPT !.pc = "slug", !.todo = Tail(@), !.slug = <<>>]
            /\ UNCHANGED reply
    /\ UNCHANGED <<gpsVars, exifVars, derivVars, treeVars, folders, folderSeq, photoSeq,
                   cacheVars, scan>>

RegenStep == RegenNull \/ RegenSlug \/ RegenUpdate

(***************************************************************************)
(* The folder operations of the admin: create, rename, delete.             *)
(***************************************************************************)
\* strings.ReplaceAll(name, "..", "").
RECURSIVE RemoveDotDot(_)
RemoveDotDot(str) ==
    IF Len(str) < 2 THEN str
    ELSE IF str[1] = Dot /\ str[2] = Dot THEN RemoveDotDot(SubSeq(str, 3, Len(str)))
    ELSE <<Head(str)>> \o RemoveDotDot(Tail(str))

\* The runes sanitizeFilename turns into '_':  / \ : * ? " < > |
ForbiddenRunes == {47, 92, 58, 42, 63, 34, 60, 62, 124}

Unnamed == <<117, 110, 110, 97, 109, 101, 100>>    \* "unnamed"

\* filepath.Base of a name without trailing separator; "." for "".
GoBase(name) == IF name = <<>> THEN <<Dot>> ELSE Base(name)

sanitizeFilename(name) ==
    LET stripped == RemoveDotDot(GoBase(name))
        mapped == [k \in 1..Len(stripped) |->
                      IF stripped[k] \in ForbiddenRunes THEN Underscore
                      ELSE stripped[k]]
    IN  IF mapped = <<>> \/ mapped = <<Dot>> THEN Unnamed ELSE mapped

InvalidName(name) == name = <<>> \/ name = <<Dot>> \/ name = <<Dot, Dot>>

\* The names typed into the forms: "e", "d", "..", "x/e".
FormNames == {<<101>>, <<100>>, <<46, 46>>, <<120, 47, 101>>}

\* The directories os.MkdirAll makes sure of: the path and what is above it.
Ancestors(path) ==
    {SubSeq(path, 1, k - 1) : k \in {j \in 1..Len(path) : path[j] = Slash}}
        \cup {path}

\* INSERT INTO folders ... ON CONFLICT DO NOTHING: nothing is written when
\* the path has a row or the parent has none.
InsertFolderDoNothing(fs, seq, parent, name, path) ==
    IF (\E f \in fs : f.path = path) \/ (parent # 0 /\ ~\E f \in fs : f.id = parent)
    THEN fs
    ELSE fs \cup {[id |-> seq + 1, parent |-> parent, name |-> name, path |-> path]}

\* adminCreateFolder with the form values name and parent_id (0: left empty).
adminCreateFolder(formName, pid) ==
    /\ AllIdle
    /\ folderSeq < MaxFolderSeq
    /\ LET name == sanitizeFilename(formName)
           parents == {f \in folders : f.id = pid}
           parentPath == IF parents = {} THEN <<>>
                         ELSE (CHOOSE f \in parents : TRUE).path
           path == IF parentPath = <<>> THEN name ELSE Join(parentPath, name)
       IN  IF InvalidName(name)
           THEN /\ reply' = Failure("adminCreateFolder", "Invalid name")
                /\ UNCHANGED <<dirs, folders, folderSeq>>
           ELSE IF Ancestors(path) \cap DOMAIN files # {}
           THEN /\ reply' = Failure("adminCreateFolder", "mkdir: not a directory")
                /\ UNCHANGED <<dirs, folders, folderSeq>>
           ELSE /\ dirs' = dirs \cup Ancestors(path)
                /\ folders' = InsertFolderDoNothing(folders, folderSeq, pid, name, path)
                /\ folderSeq' = folderSeq + 1
                /\ reply' = Reply("adminCreateFolder", 0, "", Plain(TRUE), NoDel)
    /\ UNCHANGED <<gpsVars, exifVars, regen, derivVars, files, photos, photoSeq, cacheVars, scan>>

\* adminUpdateFolder: UPDATE folders SET name = $1 WHERE id = $2.
adminUpdateFolder(id, formName) ==
    /\ AllIdle
    /\ LET name == sanitizeFilename(formName)
       IN  IF InvalidName(name)
           THEN /\ reply' = Failure("adminUpdateFolder", "Invalid name")
                /\ UNCHANGED folders
           ELSE /\ folders' = {IF f.id = id THEN [f EXCEPT !.name = name] ELSE f :
                                  f \in folders}
                /\ reply' = Reply("adminUpdateFolder", id, "", Plain(TRUE), NoDel)
    /\ UNCHANGED <<gpsVars, exifVars, regen, derivVars, treeVars, folderSeq, photos, photoSeq,
                   cacheVars, scan>>
(***************************************************************************)
(* The system after main has built its services: an empty catalog, an      *)
(* empty cache directory and index, a media root holding a hidden file and *)
(* an empty directory.                                                     *)
(***************************************************************************)
NoReply == Reply("none", 0, "", Plain(TRUE), NoDel)

InitCatalog ==
    /\ folders = {}
    /\ photos = {}
    /\ folderSeq = 0
    /\ photoSeq = 0
    /\ cacheFiles = {}
    /\ existsCache = {}
    /\ scan = [s \in Scanners |-> IdleScan]
    /\ regen = IdleRegen
    /\ req = [r \in Requesters |-> IdleReq]
    /\ partial = {}
    /\ reply = NoReply

InitTree ==
    /\ dirs = {DirD}
    /\ files = [p \in {FileHidden} |-> JpegPlain]

NoGPS ==
    /\ gpsShape = CHOOSE s \in GPSShapes : TRUE
    /\ gpsInput = <<>>
    /\ gpsFile = <<>>
    /\ gpsLog = <<>>

Init == NoGPS /\ NoExif /\ InitTree /\ InitCatalog

\* The files that come and go: two whose slugs collide, one in a directory.
SpecFiles == {FileA, Filea, FileB}

\* One scan at a time: the steps of the scan in progress.
ScanStep(s) ==
    \/ ScanReturn(s)
    \/ ScanSkip(s)
    \/ ScanEnterDir(s)
    \/ ScanEnsureInsert(s)
    \/ ScanPhotoCheck(s)
    \/ ScanStrip(s)
    \/ ScanSlug(s)
    \/ ScanInsert(s)
    \/ ScanThumbs(s)

Next ==
    \/ StartScanAll(1)
    \/ \E d \in DirUniverse \cup {<<>>} : StartScanFolder(1, d)
    \/ ScanStep(1)
    \/ CleanOrphans
    \/ \E id \in PhotoIds : adminDeletePhoto(id)
    \/ \E id \in FolderIds : adminDeleteFolder(id)
    \/ \E path \in SpecFiles : \E content \in NewContents(path) : AddFile(path, content)
    \/ \E path \in SpecFiles : RemoveFile(path)

Spec == Init /\ [][Next]_vars

(***************************************************************************)
(* The derivative cache in use: photos are scanned in, their thumbnails    *)
(* and placeholders served, photos deleted by the admin.                   *)
(***************************************************************************)
NextCache ==
    \/ StartScanAll(1)
    \/ \E d \in DirUniverse \cup {<<>>} : StartScanFolder(1, d)
    \/ ScanStep(1)
    \/ \E id \in PhotoIds, size \in Tiers : serveThumbnail(id, size)
    \/ \E id \in PhotoIds : servePlaceholder(id)
    \/ \E id \in PhotoIds : adminDeletePhoto(id)
    \/ \E path \in SpecFiles : \E content \in NewContents(path) : AddFile(path, content)
    \/ \E path \in SpecFiles : RemoveFile(path)

SpecCache == Init /\ [][NextCache]_vars

(***************************************************************************)
(* Concurrent scans over one unchanging tree: adminScan and adminScanFolder *)
(* start each scan in a goroutine of its own.                              *)
(***************************************************************************)
InitConc ==
    /\ NoGPS
    /\ NoExif
    /\ dirs = {DirD}
    /\ files = [p \in {FileHidden, Filea, FileB} |->
                   IF p = FileB THEN PngHead
                   ELSE IF p = Filea THEN JpegGPS ELSE JpegPlain]
    /\ InitCatalog

NextConc ==
    \E s \in Scanners :
        \/ StartScanAll(s)
        \/ \E d \in DirUniverse \cup {<<>>} : StartScanFolder(s, d)
        \/ ScanStep(s)

SpecConc == InitConc /\ [][NextConc]_vars

(***************************************************************************)
(* Ingestion only: files are copied into the root and scanned, one scan at *)
(* a time; no row is ever deleted.                                         *)
(***************************************************************************)
SlugFiles == {FileA, Filea, FileA1}

NextSlug ==
    \/ StartScanAll(1)
    \/ \E d \in DirUniverse \cup {<<>>} : StartScanFolder(1, d)
    \/ ScanStep(1)
    \/ \E path \in SlugFiles : \E content \in NewContents(path) : AddFile(path, content)

SpecSlug == Init /\ [][NextSlug]_vars

(***************************************************************************)
(* ExifService.StripGPS applied to the file under test.                    *)
(***************************************************************************)
InitGPS ==
    /\ gpsShape \in GPSShapes
    /\ gpsInput = BuildFile(gpsShape)
    /\ gpsFile = gpsInput
    /\ gpsLog = <<>>
    /\ NoExif
    /\ InitTree
    /\ InitCatalog

StripGPS ==
    /\ Len(gpsLog) < MaxStripCalls
    /\ LET r == stripGPSFromJPEG(gpsFile)
       IN  /\ gpsFile' = FileAfterStrip(gpsFile)
           /\ gpsLog' = Append(gpsLog,
                  [before |-> gpsFile, after |-> gpsFile',
                   modified |-> r.modified, wrote |-> r.modified /\ ~r.panicked,
                   beyond |-> r.beyond, panicked |-> r.panicked])
    /\ UNCHANGED <<gpsShape, gpsInput, exifVars, sysVars>>

NextGPS == StripGPS

SpecGPS == InitGPS /\ [][NextGPS]_vars

(***************************************************************************)
(* ExifService.Extract applied to one file.                                *)
(***************************************************************************)
InitExif ==
    /\ NoGPS
    /\ InitTree
    /\ InitCatalog
    /\ exifIn \in ExifInputs
    /\ exifOut = NotCalled

NextExif == ExtractCall

SpecExif == InitExif /\ [][NextExif]_vars

ExtractReturned == exifOut.strategy # "none"

\* C11: Extract never returns an error: a tool that is absent, exits
\* non-zero or prints unparsable output sends the file to the built-in
\* decoder, and a file without EXIF, with EXIF that does not parse, or that
\* cannot be opened yields an empty record and a zero capture time.
C11_ExtractNeverFails ==
    ExtractReturned =>
        /\ ~exifOut.err
        /\ (exifIn.hasExiftool /\ exifIn.tool \in {"absent", "exit", "garbage"}
                => exifOut.strategy = "goexif")
        /\ (exifIn.file # "exif"
                => /\ ~exifOut.isNil
                   /\ exifOut.info = EmptyInfo
                   /\ exifOut.takenAt = ZeroTime)

(***************************************************************************)
(* Ingestion of the Trips tree: the two photos are copied in, in either    *)
(* order, and scanned, one scan at a time.                                 *)
(***************************************************************************)
InitTrips ==
    /\ NoGPS
    /\ NoExif
    /\ dirs = TripDirs
    /\ files = [p \in {FileHidden} |-> JpegPlain]
    /\ InitCatalog

NextTrips ==
    \/ StartScanAll(1)
    \/ \E d \in TripDirs : StartScanFolder(1, d)
    \/ ScanStep(1)
    \/ \E path \in TripFiles : \E content \in NewContents(path) : AddFile(path, content)

SpecTrips == InitTrips /\ [][NextTrips]_vars

(***************************************************************************)
(* Concurrent scans of subtrees whose files sanitize to the same slug: the *)
(* files are copied in while no scan runs, scans start in goroutines of    *)
(* their own and interleave per database statement.                        *)
(***************************************************************************)
InitRace ==
    /\ NoGPS
    /\ NoExif
    /\ dirs = RaceDirs
    /\ files = [p \in {FileHidden} |-> JpegPlain]
    /\ InitCatalog

NextRace ==
    \/ \E s \in Scanners :
          \/ StartScanAll(s)
          \/ \E d \in RaceDirs : StartScanFolder(s, d)
          \/ ScanStep(s)
    \/ \E path \in RaceFiles : \E content \in NewContents(path) : AddFile(path, content)

SpecRace == InitRace /\ [][NextRace]_vars

(***************************************************************************)
(* The walk and its failures: files of any content are copied in, a file   *)
(* may vanish under a running scan, one scan runs at a time.               *)
(***************************************************************************)
NextWalk ==
    \/ StartScanAll(1)
    \/ \E d \in DirUniverse \cup {<<>>} : StartScanFolder(1, d)
    \/ ScanStep(1)
    \/ \E path \in WalkFiles : \E content \in WalkContents(path) : AddFile(path, content)
    \/ \E path \in WalkFiles : RemoveFile(path)
    \/ \E path \in WalkFiles : VanishFile(path)

SpecWalk == Init /\ [][NextWalk]_vars

(***************************************************************************)
(* Concurrent scans and a regeneration of the slugs over one unchanging    *)
(* tree whose two photos sanitize to the same slug.                        *)
(***************************************************************************)
InitRegen ==
    /\ NoGPS
    /\ NoExif
    /\ dirs = {DirD}
    /\ files = [p \in {FileHidden, FileA, Filea} |->
                   IF p = Filea THEN JpegGPS ELSE JpegPlain]
    /\ InitCatalog

NextRegen ==
    \/ \E s \in Scanners : StartScanAll(s) \/ ScanStep(s)
    \/ RegenStart
    \/ RegenStep

SpecRegen == InitRegen /\ [][NextRegen]_vars

(***************************************************************************)
(* Folders: scans, one at a time, and the admin creating, renaming and     *)
(* deleting folders in between.                                            *)
(***************************************************************************)
InitFolders ==
    /\ NoGPS
    /\ NoExif
    /\ dirs = {DirD}
    /\ files = [p \in {FileHidden, FileB} |-> IF p = FileB THEN PngHead ELSE JpegPlain]
    /\ InitCatalog

\* The ids a form can name: those of the rows, and one that has no row.
KnownFolderIds == {f.id : f \in folders} \cup {folderSeq + 1}

NextFolders ==
    \/ StartScanAll(1)
    \/ ScanStep(1)
    \/ \E name \in FormNames, pid \in KnownFolderIds \cup {0} : adminCreateFolder(name, pid)
    \/ \E id \in KnownFolderIds, name \in FormNames : adminUpdateFolder(id, name)
    \/ \E id \in KnownFolderIds : adminDeleteFolder(id)

SpecFolders == InitFolders /\ [][NextFolders]_vars

(***************************************************************************)
(* Sweep: the admin creates, renames and deletes folders, scans run one at *)
(* a time, and CleanOrphans is called in between.                          *)
(***************************************************************************)
NextSweep ==
    \/ NextFolders
    \/ CleanOrphans
    \/ \E p \in DOMAIN files : RemoveFile(p)

SpecSweep == InitFolders /\ [][NextSweep]_vars

(***************************************************************************)
(* Names: one file with a generated name, in the root or in a directory,   *)
(* is scanned; its row holds sanitizeURLPath of its path.                  *)
(***************************************************************************)
MaxStem == 2    \* characters of a file name before its extension

\* 'a', 'B', ' ', '!', '-', '_'.
NameRunes == {97, 66, Space, 33, Hyphen, Underscore}

NameStems == UNION {[1..n -> NameRunes] : n \in 1..MaxStem}

NamedFiles ==
    {Join(dir, stem \o ExtJpg) : dir \in {<<>>, DirD}, stem \in NameStems}

InitNames ==
    /\ NoGPS
    /\ NoExif
    /\ dirs = {DirD}
    /\ \E path \in NamedFiles : files = [p \in {FileHidden, path} |-> JpegPlain]
    /\ InitCatalog

NextNames ==
    \/ StartScanAll(1)
    \/ ScanStep(1)

SpecNames == InitNames /\ [][NextNames]_vars

(***************************************************************************)
(* Ingestion step by step: two scans over one unchanging tree, with the    *)
(* GPS strip and the metadata extraction of processPhoto as two steps.     *)
(***************************************************************************)
ProcessStep(s) ==
    \/ ScanReturn(s)
    \/ ScanSkip(s)
    \/ ScanEnterDir(s)
    \/ ScanEnsureInsert(s)
    \/ ScanPhotoCheck(s)
    \/ ScanStripFile(s)
    \/ ScanExtract(s)
    \/ ScanSlug(s)
    \/ ScanInsert(s)
    \/ ScanThumbs(s)

NextIngest ==
    \E s \in Scanners :
        \/ StartScanAll(s)
        \/ ProcessStep(s)

SpecIngest == InitConc /\ [][NextIngest]_vars

(***************************************************************************)
(* Derivatives: a scan ingests one photo while requests for its thumbnail  *)
(* and its placeholder are served and the admin deletes it.                *)
(***************************************************************************)
RequestSizes == {"small", "placeholder"}

InitDeriv ==
    /\ NoGPS
    /\ NoExif
    /\ dirs = {DirD}
    /\ files = [p \in {FileHidden, Filea} |-> IF p = Filea THEN JpegGPS ELSE JpegPlain]
    /\ InitCatalog

NextDeriv ==
    \/ StartScanAll(1)
    \/ ScanStep(1)
    \/ \E r \in Requesters, id \in PhotoIds, size \in RequestSizes : ServeStart(r, id, size)
    \/ \E r \in Requesters : DerivStep(r)
    \/ \E id \in PhotoIds : adminDeletePhoto(id)
    \/ PrewarmCache

SpecDeriv == InitDeriv /\ [][NextDeriv]_vars

(***************************************************************************)
(* Hidden photos: a photo is scanned in, the admin hides and shows it, and *)
(* its page, original, thumbnails and placeholder are requested.           *)
(***************************************************************************)
NextHidden ==
    \/ StartScanAll(1)
    \/ ScanStep(1)
    \/ \E id \in PhotoIds : adminToggleHide(id)
    \/ \E id \in PhotoIds : publicPhotoByID(id)
    \/ \E id \in PhotoIds : serveOriginal(id)
    \/ \E id \in PhotoIds, size \in Tiers : serveThumbnail(id, size)
    \/ \E id \in PhotoIds : servePlaceholder(id)

SpecHidden == InitDeriv /\ [][NextHidden]_vars

(***************************************************************************)
(* Properties of StripGPS (specification SpecGPS).                         *)
(***************************************************************************)
\* Position k (1-based) of the file lies in an IFD0 entry of the shape whose
\* tag is the GPS pointer.
InGPSEntry(s, k) ==
    \E j \in 1..Len(s.tags) :
        /\ s.tags[j] = "gps"
        /\ k - 1 >= EntryPos(s, j)
        /\ k - 1 < EntryPos(s, j) + EntrySize

\* The input with exactly the bytes of its GPS entries zeroed.
ExpectedStrip(s, input) ==
    [k \in 1..Len(input) |-> IF InGPSEntry(s, k) THEN 0 ELSE input[k]]

\* Every segment of the shape lies inside the file and the file ends with a
\* whole segment, an EOI, a scan or non-marker data.
WholeSegments(s) ==
    /\ s.magic = "jpeg"
    /\ s.lenMode = "exact"
    /\ s.tail \in {"none", "eoi", "sos", "nonff"}

\* C3: whenever StripGPS zeroes a GPS entry of a file that starts with the
\* JPEG magic, the bytes written back have the length of the input and equal
\* it everywhere except in the 12 bytes of each IFD0 entry whose tag is the
\* GPS pointer, which are zero (so the declared segment length and every
\* byte after the segment are unchanged).
C3_StripKeepsLayout ==
    (Len(gpsLog) >= 1 /\ gpsShape.magic = "jpeg" /\ gpsLog[1].wrote)
        => gpsLog[1].after = ExpectedStrip(gpsShape, gpsInput)

\* The layout is kept for every file made of whole segments.
StripKeepsLayoutOfWholeSegments ==
    (Len(gpsLog) >= 1 /\ WholeSegments(gpsShape) /\ gpsLog[1].modified)
        => /\ gpsLog[1].wrote
           /\ gpsLog[1].after = ExpectedStrip(gpsShape, gpsInput)

\* C4: a StripGPS call writes the file if and only if it zeroed at least one
\* GPS entry, and a second call on a file the first call stripped writes
\* nothing and leaves the file byte-identical.
C4_WriteIffZeroed ==
    \A i \in 1..Len(gpsLog) :
        /\ gpsLog[i].wrote <=> gpsLog[i].modified
        /\ (i >= 2 /\ gpsLog[i - 1].wrote)
              => (~gpsLog[i].wrote /\ gpsLog[i].after = gpsLog[i].before)

\* The same for every call that returns.
WriteIffZeroedWhenReturning ==
    \A i \in 1..Len(gpsLog) :
        /\ ~gpsLog[i].panicked => (gpsLog[i].wrote <=> gpsLog[i].modified)
        /\ (i >= 2 /\ gpsLog[i - 1].wrote)
              => (~gpsLog[i].modified /\ gpsLog[i].after = gpsLog[i].before)

\* The file lacks the structure StripGPS searches for: another magic, a
\* segment whose declared length runs past the end of the file, a payload too
\* short for a TIFF header, an IFD0 offset outside the payload, or an entry
\* count that runs outside a payload holding no GPS entry.
LacksStructure(s) ==
    \/ s.magic = "png"
    \/ s.lenMode # "exact"
    \/ s.tail = "hugeseg"
    \/ s.payload = "short"
    \/ s.ifdOff # "ifd0"
    \/ (s.extraCount > 0 /\ \A j \in 1..Len(s.tags) : s.tags[j] # "gps")

\* C5: on a file that lacks the structure searched for, StripGPS returns
\* without error, writes nothing, and never slices the buffer past its length.
C5_NoOpOnMissingStructure ==
    (Len(gpsLog) >= 1 /\ LacksStructure(gpsShape))
        => /\ ~gpsLog[1].panicked
           /\ ~gpsLog[1].wrote
           /\ ~gpsLog[1].beyond

\* Apart from a declared segment length that runs past the end of the file,
\* a missing structure is a silent no-op.
NoOpWhenSegmentsInside ==
    (Len(gpsLog) >= 1 /\ LacksStructure(gpsShape)
        /\ gpsShape.lenMode = "exact" /\ gpsShape.tail # "hugeseg")
        => /\ ~gpsLog[1].panicked
           /\ ~gpsLog[1].wrote
           /\ ~gpsLog[1].beyond

(***************************************************************************)
(* Properties of the scanner and the catalog.                              *)
(***************************************************************************)

\* C1: a ScanAll that starts right after a ScanAll completed, the tree not
\* having changed in between, leaves the catalog as the first run left it:
\* none of its steps adds, removes or updates a Folder row or a Photo row
\* (nor draws an id from a sequence).
C1_RescanLeavesCatalog == [][scan[1].rescan => UNCHANGED catalogVars]_vars

\* The second of two ScanAll runs has visited every entry of a tree with a
\* folder and two photos.
C1_RescanDone ==
    /\ scan[1].rescan
    /\ scan[1].pc = "loop"
    /\ Len(scan[1].stack) = 1
    /\ Frame(1).entries = <<>>
    /\ folders # {}
    /\ Cardinality(photos) >= 2

\* The slug base of a photo row and whether the row is the first ingested
\* among the rows of its base.
SlugBase(p) == sanitizeURLPath(p.path)
FirstOfBase(p) == \A q \in photos : SlugBase(q) = SlugBase(p) => p.id <= q.id
UniqueURLs == \A p, q \in photos : p.url = q.url => p = q

\* C2 (as stated): no two Photo rows have the same url_path; among the
\* photos of one slug base the first ingested has the unsuffixed slug and
\* every later one a suffixed slug.
C2_FirstKeepsUnsuffixed ==
    /\ UniqueURLs
    /\ \A p \in photos :
          IF FirstOfBase(p) THEN p.url = SlugBase(p) ELSE p.url # SlugBase(p)

\* C2 (amended): no two Photo rows have the same url_path; a photo has the
\* unsuffixed slug of its path exactly when no photo ingested before it
\* holds that slug (as its own base or as a suffixed slug of another base),
\* and otherwise has a suffixed slug base-N.ext.
C2_UnsuffixedUnlessTaken ==
    /\ UniqueURLs
    /\ \A p \in photos :
          /\ p.url = SlugBase(p) <=>
                ~\E q \in photos : q.id < p.id /\ q.url = SlugBase(p)
          /\ p.url # SlugBase(p) =>
                \E i \in 1..photoSeq : p.url = SlugCandidate(p.path, i)

\* Three photos ingested, one of which is the first of its base and yet
\* has a suffixed slug, its base being held by an earlier photo.
C2_BaseTakenByOther ==
    /\ Cardinality(photos) = 3
    /\ \E p \in photos : FirstOfBase(p) /\ p.url # SlugBase(p)

\* C6: under every interleaving of concurrent ScanAll and ScanFolder calls
\* the catalog holds no two Photo rows with the same path and no two Folder
\* rows with the same path.
C6_NoDuplicatePaths ==
    /\ \A p, q \in photos : p.path = q.path => p = q
    /\ \A f, g \in folders : f.path = g.path => f = g

\* Two scans passed the existence check for the same file and both ran
\* their INSERT for it.
C6_BothInserted ==
    /\ scan[1].pc = "thumbs"
    /\ scan[2].pc = "thumbs"
    /\ scan[1].rel = scan[2].rel
    /\ photoSeq >= 2

(***************************************************************************)
(* Properties of the derivative cache (specification SpecCache).           *)
(***************************************************************************)
Served(r) == r.op \in {"serveThumbnail", "servePlaceholder"}

\* The cache path of the key (photo id, tier) of a served request.
KeyPath(id, tier) ==
    IF tier = "placeholder" THEN PlaceholderPath(id)
    ELSE ThumbPath(id, (CHOOSE p \in photos : p.id = id).path, tier)

C8_InvalidateRemovesAll ==
    [][(reply'.op = "adminDeletePhoto" /\ \E p \in photos : p.id = reply'.id) =>
          /\ \A c \in cacheFiles' \cup existsCache' : c.id # reply'.id
          /\ {c \in cacheFiles' : c.id # reply'.id} = {c \in cacheFiles : c.id # reply'.id}
          /\ {c \in existsCache' : c.id # reply'.id}
                = {c \in existsCache : c.id # reply'.id}]_vars

\* A photo with its three thumbnails and its placeholder was deleted while
\* another photo had derivatives.
C8_InvalidatedFour ==
    /\ reply.op = "adminDeletePhoto"
    /\ Cardinality(reply.del.cache) = 4
    /\ cacheFiles # {}
    /\ existsCache # {}

\* C9: in every state with no scan in progress, no derivative file and no
\* entry of the existence index belongs to a photo id without a catalog row.
C9_NoDerivativeWithoutRow ==
    AllIdle => \A c \in cacheFiles \cup existsCache : \E p \in photos : p.id = c.id

\* A folder row whose only contents are photo rows whose files are gone.
OnlyOrphans(f) ==
    /\ \E p \in photos : p.folder = f.id
    /\ \A p \in photos : p.folder = f.id => p.path \notin DOMAIN files
    /\ ~\E sf \in folders : sf.parent = f.id

\* C10: a CleanOrphans call deletes the Photo rows of every folder whose
\* only contents are photo rows without a backing file, and the Folder row.
C10_CleanRemovesFolder ==
    [][reply'.op = "CleanOrphans" =>
          \A f \in folders : OnlyOrphans(f) =>
              /\ ~\E g \in folders' : g.id = f.id
              /\ \A p \in photos : p.folder = f.id => ~\E q \in photos' : q.id = p.id]_vars

\* CleanOrphans deleted a photo row and the folder row it was in.
C10_CleanedFolder ==
    /\ reply.op = "CleanOrphans"
    /\ \E p \in reply.del.photos : p.folder \in reply.del.folders

(***************************************************************************)
(* ScanFolder on a path without a folder row.                              *)
(***************************************************************************)
\* C12: ScanFolder called with a non-empty path that has no Folder row
\* returns the not-found error of the lookup and leaves the catalog, the
\* files on disk and the cache as they were; no walk is started.
C12_MissingRowFails ==
    [][\A d \in DirUniverse :
          (d # <<>> /\ FolderIdByPath(d) = 0 /\ StartScanFolder(1, d))
              => /\ reply'.op = "ScanFolder"
                 /\ ~reply'.ok
                 /\ reply'.err = ErrNoRows
                 /\ UNCHANGED <<catalogVars, treeVars, cacheVars, scan>>]_vars

C12_NotFoundReturned ==
    /\ reply.op = "ScanFolder"
    /\ reply.err = ErrNoRows
    /\ FolderIdByPath(DirD) = 0
    /\ photos # {}

(***************************************************************************)
(* The slugs of the Trips tree.                                            *)
(***************************************************************************)
PhotoAt(path) == CHOOSE p \in photos : p.path = path

BothParisIngested ==
    /\ PhotoExists(FileParisFirst)
    /\ PhotoExists(FileParisSecond)
    /\ PhotoAt(FileParisFirst).id < PhotoAt(FileParisSecond).id

\* C13: starting from an empty catalog, Trips/2024 Paris/IMG_0001.JPG gets
\* the slug trips/2024-paris/img_0001.jpg and Trips/2024-Paris/IMG 0001.JPG,
\* ingested after it, the slug trips/2024-paris/img_0001-1.jpg.
C13_SecondSuffixed ==
    BothParisIngested =>
        /\ PhotoAt(FileParisFirst).url = SlugParisUnderscore
        /\ PhotoAt(FileParisSecond).url = SlugParisUnderscore1

\* C13 as the code has it: the space of "IMG 0001" becomes a hyphen, the
\* two paths sanitize to different slugs and neither gets a suffix, in
\* whichever order they are ingested.
C13_SlugsDiffer ==
    /\ PhotoExists(FileParisFirst)
           => PhotoAt(FileParisFirst).url = SlugParisUnderscore
    /\ PhotoExists(FileParisSecond)
           => PhotoAt(FileParisSecond).url = SlugParisHyphen

C13_BothIngested == BothParisIngested /\ AllIdle

(***************************************************************************)
(* The slug race of concurrent ingestions.                                 *)
(***************************************************************************)
\* The INSERT scanner s is about to make is for a new path with a slug that
\* another row took after s had found it free.
LosesSlugRace(s) ==
    /\ scan[s].pc = "insert"
    /\ ~PhotoExists(scan[s].rel)
    /\ URLExists(scan[s].slug)

\* C14: an ingestion whose insert loses the url_path race is retried with
\* the next disambiguator in the same scan: after the failed insert the
\* scanner is still at work on that file, it has not gone on to the next
\* entry.
C14_LoserRetried ==
    [][\A s \in Scanners :
          (LosesSlugRace(s) /\ scan'[s] # scan[s])
              => /\ scan'[s].rel = scan[s].rel
                 /\ scan'[s].pc \in {"slug", "insert", "thumbs"}]_vars

(***************************************************************************)
(* Failures inside the walk.                                               *)
(***************************************************************************)
ScanKinds == {"ScanAll", "ScanFolder"}

\* C15: a scan call returns an error only when the root directory of the
\* request cannot be read, and no failure at an entry below the root ends
\* the walk: no scan is ever cut short before its later entries were
\* visited.
C15_OnlyRootFailureAborts ==
    /\ (reply.op \in ScanKinds /\ ~reply.ok) => reply.err = ErrReadDir
    /\ ~Crashed

\* C16: for a new qualifying file whose stat succeeds, a failure of
\* StripGPS, Extract, GetImageDimensions or GenerateBlurhash does not keep
\* the row from being inserted in that scan: the scanner goes on to the
\* slug and the INSERT of that file, and the file is left as it was.
C16_FailuresAbsorbed ==
    [][\A s \in Scanners :
          (/\ scan[s].pc = "strip"
           /\ scan[s].rel \in DOMAIN files
           /\ scan'[s] # scan[s])
              => /\ scan'[s].pc = "slug"
                 /\ scan'[s].rel = scan[s].rel
                 /\ (stripGPSFromJPEG(files[scan[s].rel]).panicked
                        => UNCHANGED files)]_vars

(***************************************************************************)
(* A file whose path is catalogued.                                        *)
(***************************************************************************)
\* The scanner stands in front of an image entry whose path has a row.
AtCataloguedFile(s) ==
    /\ scan[s].pc = "loop"
    /\ Frame(s).entries # <<>>
    /\ ~HasPrefix(Entry(s).name, <<Dot>>)
    /\ ~Entry(s).isDir
    /\ isImageFile(Entry(s).name)
    /\ \E p \in photos : p.path = EntryRel(s)

\* C17: when a Photo row with the path of a file exists, processing the
\* file in a scan strips nothing, extracts nothing, makes no derivative and
\* writes no row: the bytes of the file, the rows and the cache are as
\* before, and the scanner is at the next entry.
C17_CataloguedFileSkipped ==
    [][(AtCataloguedFile(1) /\ scan'[1] # scan[1])
          => /\ UNCHANGED <<treeVars, catalogVars, cacheVars>>
             /\ scan'[1] = [scan[1] EXCEPT !.stack = Advance(1)]]_vars

\* A second ScanAll has walked the root, which holds a catalogued file with
\* a GPS entry put there after its row was written.
C17_PassedCatalogued ==
    /\ scan[1].rescan
    /\ scan[1].pc = "loop"
    /\ Len(scan[1].stack) = 1
    /\ Frame(1).entries = <<>>
    /\ PhotoExists(Filea)
    /\ Filea \in DOMAIN files
    /\ files[Filea] = JpegGPS

(***************************************************************************)
(* The upsert of processPhoto.                                             *)
(***************************************************************************)
\* Scanner s makes its INSERT in this step.
Upserts(s) == scan[s].pc = "insert" /\ scan'[s] # scan[s]

\* C18: the upsert keyed by path never changes the url_path of a row whose
\* url_path is not null, whatever the interleaving; a row whose url_path is
\* null is left as it is or, when it is the row of the path inserted, gets
\* the slug of the insert and keeps every other column.
C18_UpsertKeepsSlug ==
    [][\A s \in Scanners : Upserts(s) =>
          \A p \in photos :
              IF p.url # NULL THEN p \in photos'
              ELSE \/ p \in photos'
                   \/ /\ p.path = scan[s].rel
                      /\ [p EXCEPT !.url = scan[s].slug] \in photos']_vars

\* A regeneration has set every slug to NULL and not yet come to this row,
\* whose slug an upsert has filled in since.
C18_NullSlugFilled ==
    /\ regen.pc \in {"slug", "update"}
    /\ \E p \in photos :
          /\ p.url # NULL
          /\ \E k \in 1..Len(regen.todo) : regen.todo[k].id = p.id

(***************************************************************************)
(* Folder rows.                                                            *)
(***************************************************************************)
\* The scanner stands in front of a directory entry.
AtDirectory(s) ==
    /\ scan[s].pc = "loop"
    /\ Frame(s).entries # <<>>
    /\ ~HasPrefix(Entry(s).name, <<Dot>>)
    /\ Entry(s).isDir

\* C19: a scan that meets a directory whose path has a Folder row keeps the
\* id of the row and sets its name to the name of the directory; without a
\* row it creates one under the id resolved for the enclosing directory.
C19_ScanRefreshesName ==
    [][\A s \in Scanners :
          /\ (AtDirectory(s) /\ FolderIdByPath(EntryRel(s)) # 0 /\ scan'[s] # scan[s])
                => \E f \in folders' :
                      /\ f.id = FolderIdByPath(EntryRel(s))
                      /\ f.path = EntryRel(s)
                      /\ f.name = Entry(s).name
          /\ (scan[s].pc = "ensure" /\ FolderIdByPath(scan[s].rel) = 0
                 /\ scan'[s] # scan[s])
                => \E f \in folders' :
                      /\ f.path = scan[s].rel
                      /\ f.name = Base(scan[s].rel)
                      /\ f.parent = Frame(s).parent]_vars

\* Following the parent references from the folder id reaches a root
\* without meeting a folder twice.
RECURSIVE ReachesRoot(_, _)
ReachesRoot(id, seen) ==
    IF id = 0 THEN TRUE
    ELSE IF id \in seen \/ ~\E f \in folders : f.id = id THEN FALSE
    ELSE ReachesRoot((CHOOSE f \in folders : f.id = id).parent, seen \cup {id})

\* C20: in every catalog state the paths of the folders are distinct, the
\* path of a folder is the path of its parent joined with its name (its
\* name alone for a root folder), and the parent references form a forest.
C20_FolderPathsConsistent ==
    /\ \A f, g \in folders : f.path = g.path => f = g
    /\ \A f \in folders :
          /\ IF f.parent = 0 THEN f.path = f.name
             ELSE \E p \in folders : p.id = f.parent /\ f.path = Join(p.path, f.name)
          /\ ReachesRoot(f.id, {})

(***************************************************************************)
(* The folder sweep of CleanOrphans.                                       *)
(***************************************************************************)
\* The folder row has no photo row and no sub-folder row among (ps, fs).
EmptyFolder(f, ps, fs) ==
    /\ ~\E p \in ps : p.folder = f.id
    /\ ~\E sf \in fs : sf.parent = f.id

\* C21: when CleanOrphans returns, no Folder row without photo rows and
\* without sub-folder rows is left, a parent whose only sub-folder the call
\* removed included.
C21_NoEmptyFolderLeft ==
    [][CleanOrphans => \A f \in folders' : ~EmptyFolder(f, photos', folders')]_vars

(***************************************************************************)
(* The metadata record.                                                    *)
(***************************************************************************)
\* C22: under both strategies a field of the record is set only when its
\* tag is present in the source: an absent make, exposure-compensation,
\* flash or white-balance tag leaves the field empty.
C22_AbsentTagLeavesEmpty ==
    ExtractReturned =>
        LET t == TagsSeen(exifIn)
        IN  /\ t.make = {} => exifOut.info.CameraMake = ""
            /\ t.bias = {} => exifOut.info.ExposureComp = ""
            /\ t.flash = {} => exifOut.info.Flash = ""
            /\ t.wb = {} => exifOut.info.WhiteBalance = ""

\* The magnitudes of the exposure biases, in tenths.
Magnitudes == {IF v < 0 THEN -v ELSE v : v \in UNION BiasTags}

\* The ways a magnitude is written, without a sign.
UnsignedForms ==
    {Fmt1(m) \o " EV" : m \in Magnitudes}
        \cup {ToString(m \div 10) \o " EV" : m \in Magnitudes}

\* The text starts with the sign.
HasSign(text, sign) == \E body \in UnsignedForms : text = sign \o body

\* C24: whenever the exposure-compensation tag is present, under both
\* strategies the value is written with a leading '+' when it is zero or
\* more and with a leading '-' when it is negative.
C24_SignExplicit ==
    (ExtractReturned /\ TagsSeen(exifIn).bias # {}) =>
        LET v == One(TagsSeen(exifIn).bias)
        IN  HasSign(exifOut.info.ExposureComp, IF v >= 0 THEN "+" ELSE "-")

\* The raw flash value has a mode in bits 3-4.
HasModeBits(val) == (val \div 8) % 4 # 0

\* C25 as stated: the rich strategy writes the fired bit and the mode, the
\* built-in strategy the fired bit alone, also for a raw value with mode
\* bits set.
C25_BuiltinFiredBitOnly ==
    (ExtractReturned /\ TagsSeen(exifIn).flash # {}) =>
        LET v == One(TagsSeen(exifIn).flash)
        IN  /\ exifOut.strategy = "exiftool" /\ HasModeBits(v)
                => exifOut.info.Flash \notin {"Fired", "Did not fire"}
            /\ exifOut.strategy = "goexif"
                => exifOut.info.Flash \in {"Fired", "Did not fire"}

\* What the flash values of FlashTags read as.
FlashText(val) ==
    CASE val = 0 -> "Did not fire"
      [] val = 9 -> "Fired, compulsory"
      [] val = 16 -> "Did not fire, suppressed"
      [] val = 25 -> "Fired, auto"

\* C25: whenever the flash tag is present, both strategies write the fired
\* bit followed by the mode of bits 3-4, so for a raw value with mode bits
\* set the built-in result names the mode as well.
C25_FlashDecodeShared ==
    (ExtractReturned /\ TagsSeen(exifIn).flash # {}) =>
        exifOut.info.Flash = FlashText(One(TagsSeen(exifIn).flash))

\* The built-in strategy decoded a flash value with mode bits set.
C25_BuiltinDecodedMode ==
    /\ exifOut.strategy = "goexif"
    /\ TagsSeen(exifIn).flash = {25}
    /\ exifOut.info.Flash = "Fired, auto"

(***************************************************************************)
(* The slug of a path.                                                     *)
(***************************************************************************)
\* A rune sanitizeURLPath keeps as it is.
AllowedRune(r) ==
    \/ (r >= 97 /\ r <= 122) \/ (r >= 48 /\ r <= 57)
    \/ r = Slash \/ r = Dot \/ r = Hyphen \/ r = Underscore

\* The path in lower case with every run of disallowed characters turned
\* into one hyphen, and the hyphens at the ends of the segments removed.
HyphenatedSlug(path) ==
    LET lower == ToLower(path)
        mapped == [k \in 1..Len(lower) |->
                      IF AllowedRune(lower[k]) THEN lower[k] ELSE Hyphen]
        parts == SplitSlash(TrimHyphens(CollapseHyphens(mapped)))
    IN  JoinSlash([k \in 1..Len(parts) |-> TrimHyphens(parts[k])])

\* C23: the slug of a path is the path in lower case with each maximal run
\* of disallowed characters replaced by one hyphen, without hyphens at the
\* ends of a segment, and with its separators and dots kept.
C23_RunsBecomeHyphens ==
    \A p \in photos : p.url # NULL => p.url = HyphenatedSlug(p.path)

(***************************************************************************)
(* The order of the steps of processPhoto.                                 *)
(***************************************************************************)
\* Scanner s inserts the row of the file it is processing.
InsertsRow(s) == scan[s].pc = "insert" /\ scan'[s].pc = "thumbs"

\* C26: for every file a scan ingests, StripGPS has returned, its write
\* included, before Extract reads the file, and both come before the
\* insert: the metadata stored are decoded from the bytes the strip left.
C26_StripBeforeExtract ==
    [][\A s \in Scanners :
          /\ (scan'[s].pc = "extract" /\ scan[s].pc # "extract")
                => scan[s].pc = "strip"
          /\ (scan[s].pc = "extract" /\ scan'[s] # scan[s])
                => scan'[s].meta = files[scan[s].rel]
          /\ InsertsRow(s)
                => /\ scan[s].meta = scan[s].wrote
                   /\ stripGPSFromJPEG(scan[s].meta).modified = FALSE]_vars

\* A file with a GPS entry was stripped, read and inserted.
C26_StrippedThenStored ==
    \E s \in Scanners :
        /\ scan[s].pc = "thumbs"
        /\ scan[s].rel = Filea
        /\ files[Filea] # JpegGPS
        /\ \E p \in photos : p.path = Filea

(***************************************************************************)
(* The derivative cache under concurrent requests.                         *)
(***************************************************************************)
\* C27: under any interleaving of thumbnail and placeholder requests,
\* invalidations and prewarming, every path in the existence index names a
\* file of the cache directory.
C27_IndexNamesFiles == existsCache \subseteq cacheFiles

\* Request r returns a path to its handler.
ReturnsPath(r) == req[r].pc # "idle" /\ req'[r].pc = "idle" /\ reply'.ok

\* C28: a path returned by GetThumbnailPathByID or GetPlaceholderPathByID
\* never names a file whose bytes are not all written: not one another
\* request is still writing, and not one a failed generation left behind.
C28_ReturnedFileComplete ==
    [][\A r \in Requesters : ReturnsPath(r) => reply'.path \notin partial']_vars

(***************************************************************************)
(* The slugs a regeneration leaves.                                        *)
(***************************************************************************)
\* RegenerateURLPaths returns in this step.
RegenReturns == regen.pc # "idle" /\ regen'.pc = "idle"

\* C29: when RegenerateURLPaths returns, every Photo row has a url_path,
\* the url_paths are distinct, and among the photos with the same sanitized
\* path the one with the lowest id has the slug without a suffix, also when
\* a scan inserts photos while the regeneration runs.
C29_RegenLeavesSlugs ==
    [][RegenReturns =>
          /\ \A p \in photos' : p.url # NULL
          /\ \A p, q \in photos' : p.url = q.url => p = q
          /\ \A p \in photos' :
                (\A q \in photos' :
                    sanitizeURLPath(q.path) = sanitizeURLPath(p.path) => p.id <= q.id)
                => p.url = sanitizeURLPath(p.path)]_vars

(***************************************************************************)
(* Hidden photos.                                                          *)
(***************************************************************************)
PublicOps == {"publicPhotoByID", "serveOriginal", "serveThumbnail", "servePlaceholder"}

\* C30: no public endpoint serves a photo whose hidden flag is set: the
\* page, original, thumbnail and placeholder requests for it answer
\* NotFound, as they do for an id without a row.
C30_HiddenNotServed ==
    [][(reply' # reply /\ reply'.op \in PublicOps)
          => \E p \in photos : p.id = reply'.id /\ ~p.hidden]_vars

====
